---- MODULE Spec2Model ----
(***************************************************************************)
(* A model of GTG's Task (src/GTG/core/task.py): the due-date constraint   *)
(* propagator, the status state machine, the recurrence engine and the     *)
(* tag/content synchronizer, over a multi-parent task graph.               *)
(*                                                                         *)
(* Text (content, tag names, titles) is a sequence of one-character        *)
(* strings.  A Date is a record [kind, day]: kind "date" with a day        *)
(* number, or one of the fuzzy kinds with day 0.                           *)
(***************************************************************************)
EXTENDS Integers, Sequences, FiniteSets, TLC

\* ctxs: the DisabledSyncCtx objects entered and not yet left, innermost last.
VARIABLES tasks, lists, registry, notified, events, today, last, ctxs

vars == <<tasks, lists, registry, notified, events, today, last, ctxs>>

\* ---------------------------------------------------------------- bounds
\* Number of task identifiers the requester can hand out.
MaxTasks == 3
\* Concrete calendar days offered as inputs are 1..MaxDate.
MaxDate == 2

\* Identifiers left for the tasks a recurrence spawns.
MaxClones == 4

\* The tasks a behaviour starts with, and every identifier new_task may use.
TIDS == 1..MaxTasks
IDS == 1..(MaxTasks + MaxClones)

\* ------------------------------------------------------------ Task constants
STA_ACTIVE == "Active"
STA_DISMISSED == "Dismiss"
STA_DONE == "Done"
DEFAULT_TASK_NAME == <<"M", "y", " ", "n", "e", "w", " ", "t", "a", "s", "k">>
\* Python's None, for a recurring_term or a status that is absent.
None == "None"

\* ------------------------------------------------------------------ Date
NoDate == [kind |-> "no_date", day |-> 0]
Someday == [kind |-> "someday", day |-> 0]
Day(n) == [kind |-> "date", day |-> n]

\* Date.is_fuzzy(): no_date and the fuzzy values are fuzzy.
is_fuzzy(d) == d.kind # "date"

\* Date.__lt__: fuzzy values and no_date compare as infinitely late.
DateLT(a, b) ==
    IF is_fuzzy(a) THEN FALSE
    ELSE IF is_fuzzy(b) THEN TRUE
    ELSE a.day < b.day

DateLE(a, b) == a = b \/ DateLT(a, b)

\* A caller's argument to a date setter: a Date, or Python's None, or a
\* string that parses to no date (kinds "None" and "garbage").
RawNone == [kind |-> "None", day |-> 0]
RawGarbage == [kind |-> "garbage", day |-> 0]

\* Date(value): the normalising constructor.  None and unparseable input
\* give no_date; a Date is copied.
Date(value) ==
    IF value.kind \in {"None", "garbage"} THEN NoDate
    ELSE value

\* Date.__bool__: no_date is falsy.
DateTruthy(d) == d # NoDate

\* Values a caller may pass to a date setter.
DateInputs == {RawNone, Someday} \cup {Day(n) : n \in 1..MaxDate}

\* --------------------------------------------------------- sequence helpers
Range(s) == {s[i] : i \in 1..Len(s)}

Append1(s, x) == IF x \in Range(s) THEN s ELSE Append(s, x)

RECURSIVE Reverse(_)
Reverse(s) == IF s = <<>> THEN <<>> ELSE Append(Reverse(Tail(s)), Head(s))

RECURSIVE Without(_, _)
Without(s, x) ==
    IF s = <<>> THEN <<>>
    ELSE IF Head(s) = x THEN Without(Tail(s), x)
    ELSE <<Head(s)>> \o Without(Tail(s), x)

\* ------------------------------------------------------------------ world
\* The object graph the methods work on: every Task's fields, the tag lists
\* they reference, the modified() notifications of the running call and the
\* status-changed events queued on the idle loop.
\* registry: the names the requester has a tag object for.
\* raised: an exception left the running call.
\* assigned: the assignments set_due_date made to due_date in the running
\* call, each as <<task, date>>, in the order they were made.
World ==
    [tasks |-> tasks, lists |-> lists, registry |-> registry, notified |-> notified,
     events |-> events, raised |-> FALSE, assigned |-> <<>>]

\* Task.sync
sync(w, t) ==
    IF w.tasks[t].sync_disabled THEN w
    ELSE IF w.tasks[t].loaded THEN [w EXCEPT !.notified[t] = @ + 1]
    ELSE w

RECURSIVE recursive_sync(_, _)
RECURSIVE recursive_sync_subs(_, _)
\* Task.recursive_sync
recursive_sync(w, t) == recursive_sync_subs(sync(w, t), w.tasks[t].children)

recursive_sync_subs(w, subs) ==
    IF subs = <<>> THEN w
    ELSE recursive_sync_subs(recursive_sync(w, Head(subs)), Tail(subs))

\* Task.set_start_date
set_start_date(w, t, fulldate) ==
    sync([w EXCEPT !.tasks[t].start_date = Date(fulldate)], t)

RECURSIVE get_defined_parent_list(_, _)
RECURSIVE defined_parents_of(_, _)
\* A variant that stops at the direct parents, fuzzy or not.
direct_parent_list(w, t) == w.tasks[t].parents

\* set_due_date.__get_defined_parent_list
get_defined_parent_list(w, t) == defined_parents_of(w, w.tasks[t].parents)

defined_parents_of(w, pars) ==
    IF pars = <<>> THEN <<>>
    ELSE LET par == Head(pars)
         IN (IF is_fuzzy(w.tasks[par].due_date)
             THEN get_defined_parent_list(w, par)
             ELSE <<par>>) \o defined_parents_of(w, Tail(pars))

RECURSIVE get_defined_child_list(_, _)
RECURSIVE defined_children_of(_, _)
\* set_due_date.__get_defined_child_list
get_defined_child_list(w, t) == defined_children_of(w, w.tasks[t].children)

defined_children_of(w, subs) ==
    IF subs = <<>> THEN <<>>
    ELSE LET child == Head(subs)
         IN (IF is_fuzzy(w.tasks[child].due_date)
             THEN get_defined_child_list(w, child)
             ELSE <<child>>) \o defined_children_of(w, Tail(subs))

RECURSIVE set_due_date(_, _, _)
RECURSIVE due_update_parents(_, _, _)
RECURSIVE due_update_children(_, _, _)

RECURSIVE due_update_parents_inclusive(_, _, _)
\* A variant that also sets the ancestors that are due on the new date.
due_update_parents_inclusive(w, pars, new_duedate) ==
    IF pars = <<>> THEN w
    ELSE due_update_parents_inclusive(
             IF ~DateLT(Date(new_duedate), w.tasks[Head(pars)].due_date)
             THEN set_due_date(w, Head(pars), new_duedate)
             ELSE w,
             Tail(pars), new_duedate)

\* set_due_date, lines 495-497: ancestors due earlier are pulled forward.
due_update_parents(w, pars, new_duedate) ==
    IF pars = <<>> THEN w
    ELSE due_update_parents(
             IF DateLT(w.tasks[Head(pars)].due_date, Date(new_duedate))
             THEN set_due_date(w, Head(pars), new_duedate)
             ELSE w,
             Tail(pars), new_duedate)

\* set_due_date, lines 501-505: a child due later takes the new due date.
due_update_child_due(w, sub, new_duedate) ==
    IF DateLT(Date(new_duedate), w.tasks[sub].due_date)
    THEN set_due_date(w, sub, new_duedate)
    ELSE w

\* set_due_date, lines 506-512: a child starting later starts on the new due date.
due_update_child_start(w, sub, new_duedate) ==
    IF ~is_fuzzy(w.tasks[sub].start_date)
       /\ DateLT(Date(new_duedate), w.tasks[sub].start_date)
    THEN set_start_date(w, sub, new_duedate)
    ELSE w

\* A variant that repairs the children's start dates only.
due_update_children_nopull(w, subs, new_duedate) ==
    IF subs = <<>> THEN w
    ELSE due_update_children(due_update_child_start(w, Head(subs), new_duedate),
                             Tail(subs), new_duedate)

\* set_due_date, lines 500-512: children due (or starting) later are pulled back.
due_update_children(w, subs, new_duedate) ==
    IF subs = <<>> THEN w
    ELSE due_update_children(
             due_update_child_start(due_update_child_due(w, Head(subs), new_duedate),
                                    Head(subs), new_duedate),
             Tail(subs), new_duedate)

\* set_due_date, lines 498-512: the defined children of the task are repaired.
due_update_defined_children(w, t, new_duedate) ==
    due_update_children(w, get_defined_child_list(w, t), new_duedate)

\* set_due_date, lines 491-512: a non-fuzzy date is imposed on the nearest
\* defined ancestors, then on the nearest defined descendants.
due_update_relatives(w, t, new_duedate) ==
    IF ~is_fuzzy(Date(new_duedate))
    THEN due_update_defined_children(
             due_update_parents(w, get_defined_parent_list(w, t), new_duedate),
             t, new_duedate)
    ELSE w

\* set_due_date, lines 513-516: the subtree is notified when the date changed.
due_date_changed(w, t, changed) == IF changed THEN recursive_sync(w, t) ELSE w

\* A variant that notifies the subtree whether or not the date changed.
set_due_date_always_sync(w, t, new_duedate) ==
    recursive_sync(
        due_update_relatives([w EXCEPT !.tasks[t].due_date = Date(new_duedate)],
                             t, new_duedate),
        t)

\* set_due_date, line 489: self.due_date = new_duedate_obj
due_date_assigned(w, t, new_duedate) ==
    [w EXCEPT !.tasks[t].due_date = Date(new_duedate),
              !.assigned = Append(@, <<t, Date(new_duedate)>>)]

\* Task.set_due_date
set_due_date(w, t, new_duedate) ==
    due_date_changed(
        due_update_relatives(due_date_assigned(w, t, new_duedate), t, new_duedate),
        t, w.tasks[t].due_date # Date(new_duedate))

\* ------------------------------------------------------------ construction
RECURSIVE SortedSeq(_)
SortedSeq(S) ==
    IF S = {} THEN <<>>
    ELSE LET m == CHOOSE x \in S : \A y \in S : x <= y
         IN <<m>> \o SortedSeq(S \ {m})

\* Task.__init__: the fields of a task made with Task(tid, requester, newtask).
\* tags names the list object the task references (one list per constructor).
NewTask(tid, newtask) ==
    [status |-> STA_ACTIVE, due_date |-> NoDate, start_date |-> NoDate,
     closed_date |-> NoDate, can_be_deleted |-> newtask, loaded |-> newtask,
     sync_disabled |-> FALSE, recurring |-> FALSE, recurring_term |-> None,
     title |-> DEFAULT_TASK_NAME, content |-> <<>>, tags |-> tid,
     children |-> <<>>, parents |-> <<>>]

\* ------------------------------------------------------------------- text
\* str.startswith
startswith(text, prefix) ==
    Len(prefix) <= Len(text) /\ SubSeq(text, 1, Len(prefix)) = prefix

MatchAt(text, pat, i) ==
    i + Len(pat) - 1 <= Len(text) /\ SubSeq(text, i, i + Len(pat) - 1) = pat

\* pat occurs in text
Contains(text, pat) == \E i \in 1..Len(text) : MatchAt(text, pat, i)

RECURSIVE ReplaceFrom(_, _, _, _)
ReplaceFrom(text, old, new, i) ==
    IF i > Len(text) THEN <<>>
    ELSE IF MatchAt(text, old, i) THEN new \o ReplaceFrom(text, old, new, i + Len(old))
    ELSE <<text[i]>> \o ReplaceFrom(text, old, new, i + 1)

\* str.replace: every non-overlapping occurrence, left to right, in one pass.
replace(text, old, new) == IF old = <<>> THEN text ELSE ReplaceFrom(text, old, new, 1)

RECURSIVE MapChars(_, _)
MapChars(text, table) ==
    IF text = <<>> THEN <<>>
    ELSE (IF Head(text) \in DOMAIN table THEN table[Head(text)] ELSE <<Head(text)>>)
         \o MapChars(Tail(text), table)

\* html.escape(s, quote=True)
html_escape(text) ==
    MapChars(text, [c \in {"&", "<", ">", "\"", "'"} |->
        CASE c = "&" -> <<"&", "a", "m", "p", ";">>
          [] c = "<" -> <<"&", "l", "t", ";">>
          [] c = ">" -> <<"&", "g", "t", ";">>
          [] c = "\"" -> <<"&", "q", "u", "o", "t", ";">>
          [] c = "'" -> <<"&", "#", "x", "2", "7", ";">>])

NL == "\n"

\* ------------------------------------------------------------------- tags
\* Task.get_tags_name: a copy of the list the task references.
get_tags_name(w, t) == w.lists[w.tasks[t].tags]

\* A strip that takes the marker out only where a separator follows it.
strip_tag_separated(text, tagname, newtag) ==
    LET at == <<"@">> \o tagname
        r1 == replace(text, at \o <<NL, NL>>, newtag)
        r2 == replace(r1, at \o <<NL>>, newtag)
    IN replace(r2, at \o <<",", " ">>, newtag)

\* Task._strip_tag
strip_tag(text, tagname, newtag) ==
    LET inline_tag == IF startswith(tagname, <<"@">>) THEN Tail(tagname) ELSE tagname
        at == <<"@">> \o tagname
        r1 == replace(text, at \o <<NL, NL>>, newtag)
        r2 == replace(r1, at \o <<NL>>, newtag)
        r3 == replace(r2, at \o <<",", " ">>, newtag)
        r4 == replace(r3, at, newtag)
        r5 == replace(r4, tagname \o <<NL, NL>>, newtag)
        r6 == replace(r5, tagname \o <<",", " ">>, newtag)
        r7 == replace(r6, tagname \o <<",">>, inline_tag)
    IN replace(r7, tagname, inline_tag)

RECURSIVE tag_added(_, _, _)
RECURSIVE tag_added_subtasks(_, _, _)
RECURSIVE tag_added_subtasks_flat(_, _, _)
\* A fan-out that stops at the children.
tag_added_subtasks_flat(w, subs, tagname) ==
    IF subs = <<>> THEN w
    ELSE tag_added_subtasks_flat(
             IF w.tasks[Head(subs)].can_be_deleted
                /\ tagname \notin Range(w.lists[w.tasks[Head(subs)].tags])
             THEN [w EXCEPT !.lists[w.tasks[Head(subs)].tags] = Append(@, tagname)]
             ELSE w,
             Tail(subs), tagname)

\* Task.tag_added, lines 804-806: the structured tag goes to every child that
\* is still deletable.
tag_added_subtasks(w, subs, tagname) ==
    IF subs = <<>> THEN w
    ELSE tag_added_subtasks(
             IF w.tasks[Head(subs)].can_be_deleted
             THEN tag_added(w, Head(subs), tagname).w
             ELSE w,
             Tail(subs), tagname)

\* Task.tag_added: the world after the call and what it returns (True, or
\* None when the task had the tag).
tag_added(w, t, tagname) ==
    IF tagname \notin Range(get_tags_name(w, t))
    THEN [w |-> IF w.tasks[t].loaded
                THEN [tag_added_subtasks(
                          [w EXCEPT !.lists[w.tasks[t].tags] = Append(@, tagname)],
                          w.tasks[t].children, tagname)
                         EXCEPT !.registry = @ \cup {tagname}]
                ELSE [w EXCEPT !.lists[w.tasks[t].tags] = Append(@, tagname)],
          ret |-> TRUE]
    ELSE [w |-> w, ret |-> FALSE]

\* Task.add_tag, lines 817-836: when tag_added returned True (r.ret) the
\* marker goes in front of the content.
add_tag_text(r, t, tagname) ==
    IF r.ret
    THEN LET c == r.w.tasks[t].content
             escaped == html_escape(tagname)
             marker == IF startswith(escaped, <<"@">>) THEN escaped ELSE <<"@">> \o escaped
             sep == IF c = <<>> THEN <<>>
                    ELSE IF startswith(c, <<"@">>) THEN <<",", " ">>
                    ELSE <<NL, NL>>
         IN sync([r.w EXCEPT !.tasks[t].content = marker \o sep \o c], t)
    ELSE r.w

\* Task.add_tag
add_tag(w, t, tagname) == add_tag_text(tag_added(w, t, tagname), t, tagname)

RECURSIVE RemoveFirst(_, _)
\* list.remove: the first occurrence goes.
RemoveFirst(s, x) ==
    IF s = <<>> THEN <<>>
    ELSE IF Head(s) = x THEN Tail(s)
    ELSE <<Head(s)>> \o RemoveFirst(Tail(s), x)

RECURSIVE remove_tag(_, _, _)
RECURSIVE remove_tag_subtasks(_, _, _)
\* Task.remove_tag, lines 844-846
remove_tag_subtasks(w, subs, tagname) ==
    IF subs = <<>> THEN w
    ELSE LET child == Head(subs)
             w1 == IF w.tasks[child].can_be_deleted
                   THEN remove_tag(w, child, tagname)
                   ELSE w
         IN remove_tag_subtasks(w1, Tail(subs), tagname)

\* Task.remove_tag
remove_tag(w, t, tagname) ==
    LET w1 == IF tagname \in Range(get_tags_name(w, t))
              THEN remove_tag_subtasks(
                       [w EXCEPT !.lists[w.tasks[t].tags] = RemoveFirst(@, tagname)],
                       w.tasks[t].children, tagname)
              ELSE w
    IN [w1 EXCEPT !.tasks[t].content = strip_tag(@, tagname, <<>>)]

\* xml.sax.saxutils.escape
sax_escape(data) ==
    replace(replace(replace(data, <<"&">>, <<"&", "a", "m", "p", ";">>),
                    <<">">>, <<"&", "g", "t", ";">>),
            <<"<">>, <<"&", "l", "t", ";">>)

\* xml.sax.saxutils.unescape
sax_unescape(data) ==
    replace(replace(replace(data, <<"&", "l", "t", ";">>, <<"<">>),
                    <<"&", "g", "t", ";">>, <<">">>),
            <<"&", "a", "m", "p", ";">>, <<"&">>)

\* Task.rename_tag; req.get_tag(old) is None for a name the requester has
\* no tag for, and oldt.modified() then raises.
rename_tag(w, t, old, new) ==
    LET eold == sax_escape(sax_unescape(old))
        enew == sax_escape(sax_unescape(new))
        w1 == [w EXCEPT !.tasks[t].content = replace(@, eold, enew)]
        w2 == remove_tag(w1, t, old)
    IN IF old \notin w.registry THEN [w2 EXCEPT !.raised = TRUE]
       ELSE sync(tag_added(w2, t, new).w, t)

RECURSIVE add_tags(_, _, _)
\* Task.add_child, lines 689-690: each tag of the parent is added to the child.
add_tags(w, t, names) ==
    IF names = <<>> THEN w
    ELSE add_tags(add_tag(w, t, Head(names)), t, Tail(names))

\* ------------------------------------------------------------- recurrence
ValidTerms == {"day", "other-day"}

\* The days a recurrence term advances a date by.
TermOffset(term) == IF term = "day" THEN 1 ELSE 2

\* Date.parse_from_date(term, newtask): the date one term after d, or a
\* ValueError (ok = FALSE) when the term does not parse or d is no calendar date.
parse_from_date(d, term, newtask) ==
    IF term \in ValidTerms /\ ~is_fuzzy(d)
    THEN [ok |-> TRUE, date |-> Day(d.day + TermOffset(term))]
    ELSE [ok |-> FALSE, date |-> NoDate]

\* requester.new_task(): a Task(newtask=True) under the first unused
\* identifier; its constructor ends in inherit_recursion(), which with no
\* parent is set_recurring(False) and so one sync().
new_task(w) ==
    LET tid == CHOOSE i \in IDS \ DOMAIN w.tasks : \A k \in IDS \ DOMAIN w.tasks : i <= k
        w1 == [w EXCEPT !.tasks = (tid :> NewTask(tid, TRUE)) @@ @,
                        !.lists[tid] = <<>>]
    IN [w |-> sync(w1, tid), tid |-> tid]

\* TreeNode.add_child: the edge parent -> child, once.
tree_add_child(w, p, c) ==
    IF c \in Range(w.tasks[p].children) THEN w
    ELSE [w EXCEPT !.tasks[p].children = Append(@, c),
                   !.tasks[c].parents = Append(@, p)]

RECURSIVE StripChars(_, _)
StripChars(text, chars) ==
    IF text # <<>> /\ Head(text) \in chars THEN StripChars(Tail(text), chars) ELSE text

\* str.strip(chars)
strip(text, chars) == Reverse(StripChars(Reverse(StripChars(text, chars)), chars))

NO_TITLE == <<"(", "n", "o", " ", "t", "i", "t", "l", "e", " ", "t", "a", "s", "k", ")">>

\* Task.set_title
set_title(w, t, title) ==
    LET new_title == IF title # <<>> THEN strip(title, {"\t", NL}) ELSE NO_TITLE
    IN IF new_title = w.tasks[t].title THEN w
       ELSE sync([w EXCEPT !.tasks[t].title = new_title], t)

RECURSIVE set_recurring(_, _, _, _, _)
RECURSIVE set_recurring_children(_, _, _, _)
RECURSIVE set_recurring_children_flat(_, _, _, _)
\* Task.set_recurring, lines 341-342: a child of a recurring task takes the
\* computed due date.
set_recurring_child_due(w, t, child, newdate) ==
    IF w.tasks[t].recurring THEN set_due_date(w, child, newdate) ELSE w

\* A propagation that sets the children and goes no deeper.
set_recurring_children_flat(w, t, subs, newdate) ==
    IF subs = <<>> THEN w
    ELSE set_recurring_children_flat(
             IF w.tasks[Head(subs)].loaded /\ w.tasks[Head(subs)].status = STA_ACTIVE
             THEN sync([w EXCEPT !.tasks[Head(subs)].recurring = w.tasks[t].recurring,
                                 !.tasks[Head(subs)].recurring_term = w.tasks[t].recurring_term],
                       Head(subs))
             ELSE w,
             t, Tail(subs), newdate)

\* Task.set_recurring, lines 336-342: loaded Active children take the task's
\* recurrence and, when it recurs, the computed due date.
set_recurring_children(w, t, subs, newdate) ==
    IF subs = <<>> THEN w
    ELSE set_recurring_children(
             IF w.tasks[Head(subs)].loaded /\ w.tasks[Head(subs)].status = STA_ACTIVE
             THEN set_recurring_child_due(
                      set_recurring(w, Head(subs), w.tasks[t].recurring,
                                    w.tasks[t].recurring_term, FALSE),
                      t, Head(subs), newdate)
             ELSE w,
             t, Tail(subs), newdate)

\* Task.set_recurring, lines 335-342: the children follow.
set_recurring_subtasks(w, t, newdate) ==
    set_recurring_children(w, t, w.tasks[t].children, newdate)

\* A set_recurring that stores the flag and the term it is given.
set_recurring_trusting(w, t, recurring, recurring_term, newtask) ==
    set_recurring_subtasks(
        sync([w EXCEPT !.tasks[t].recurring = recurring,
                       !.tasks[t].recurring_term = recurring_term], t),
        t, parse_from_date(Day(today), recurring_term, newtask).date)

\* A set_recurring that clears the stored term whenever the term is not valid.
set_recurring_clearing(w, t, recurring, recurring_term, newtask) ==
    IF recurring_term \in ValidTerms
    THEN set_recurring_subtasks(
             sync([w EXCEPT !.tasks[t].recurring = recurring,
                            !.tasks[t].recurring_term = recurring_term], t),
             t, parse_from_date(Day(today), recurring_term, newtask).date)
    ELSE set_recurring_subtasks(
             sync([w EXCEPT !.tasks[t].recurring = FALSE,
                            !.tasks[t].recurring_term = None], t),
             t, RawNone)

\* Task.set_recurring
set_recurring(w, t, recurring, recurring_term, newtask) ==
    LET start_from == IF w.tasks[t].start_date = NoDate THEN Day(today)
                      ELSE w.tasks[t].start_date
        parsed == parse_from_date(start_from, recurring_term, newtask)
        valid == recurring_term # None /\ parsed.ok
        \* Python's None for the date when the term is not valid
        newdate == IF valid THEN parsed.date ELSE RawNone
    IN set_recurring_subtasks(
           sync(IF recurring
                THEN IF ~valid
                     THEN [w EXCEPT !.tasks[t].recurring = FALSE,
                                    !.tasks[t].recurring_term = None]
                     ELSE IF newtask
                          THEN set_due_date([w EXCEPT !.tasks[t].recurring = TRUE,
                                                      !.tasks[t].recurring_term = recurring_term],
                                            t, newdate)
                          ELSE [w EXCEPT !.tasks[t].recurring = TRUE,
                                         !.tasks[t].recurring_term = recurring_term]
                ELSE IF valid
                     THEN [w EXCEPT !.tasks[t].recurring = FALSE,
                                    !.tasks[t].recurring_term = recurring_term]
                     ELSE [w EXCEPT !.tasks[t].recurring = FALSE],
                t),
           t, newdate)

RECURSIVE inherit_from_parents(_, _, _)
RECURSIVE inherit_from_parents_undated(_, _, _)
\* The task takes the recurrence of its parents and keeps its due date.
inherit_from_parents_undated(w, t, pars) ==
    IF pars = <<>> THEN w
    ELSE inherit_from_parents_undated(
             IF w.tasks[Head(pars)].recurring /\ w.tasks[Head(pars)].loaded
             THEN set_recurring(w, t, TRUE, w.tasks[Head(pars)].recurring_term, FALSE)
             ELSE w,
             t, Tail(pars))

\* Task.inherit_recursion, line 375: the due date the parent has by then
inherit_due_date(w, t, par) == set_due_date(w, t, w.tasks[par].due_date)

\* Task.inherit_recursion, lines 371-375
inherit_from_parents(w, t, pars) ==
    IF pars = <<>> THEN w
    ELSE inherit_from_parents(
             IF w.tasks[Head(pars)].recurring /\ w.tasks[Head(pars)].loaded
             THEN inherit_due_date(
                      set_recurring(w, t, TRUE, w.tasks[Head(pars)].recurring_term, FALSE),
                      t, Head(pars))
             ELSE w,
             t, Tail(pars))

\* Task.inherit_recursion
inherit_recursion(w, t) ==
    IF w.tasks[t].parents # <<>>
    THEN inherit_from_parents(w, t, w.tasks[t].parents)
    ELSE set_recurring(w, t, FALSE, None, FALSE)

\* A toggle that passes the term the task has, None included.
toggle_recurring_plain(w, t) ==
    set_recurring(w, t, ~w.tasks[t].recurring, w.tasks[t].recurring_term, FALSE)

\* Task.toggle_recurring
toggle_recurring(w, t) ==
    IF w.tasks[t].recurring_term = None
    THEN set_recurring([w EXCEPT !.tasks[t].recurring_term = "day"], t,
                       ~w.tasks[t].recurring, "day", TRUE)
    ELSE set_recurring(w, t, ~w.tasks[t].recurring, w.tasks[t].recurring_term, FALSE)

RECURSIVE AdvanceWhile(_, _, _, _)
\* get_next_occurrence's loops: advance d by the term while it is before
\* bound (strict) or not after it (~strict).
AdvanceWhile(d, term, bound, strict) ==
    IF (IF strict THEN d.day < bound ELSE d.day <= bound)
    THEN AdvanceWhile(parse_from_date(d, term, FALSE).date, term, bound, strict)
    ELSE d

\* Both branches advance while the date is not after the bound.
get_next_occurrence_symmetric(w, t) ==
    LET due == w.tasks[t].due_date
        term == w.tasks[t].recurring_term
        first == parse_from_date(due, term, FALSE)
    IN IF ~first.ok THEN [ok |-> FALSE, date |-> NoDate]
       ELSE IF DateLE(Day(today), due)
            THEN [ok |-> TRUE, date |-> AdvanceWhile(first.date, term, due.day, FALSE)]
            ELSE [ok |-> TRUE, date |-> AdvanceWhile(first.date, term, today, FALSE)]

\* Task.get_next_occurrence: the next due date, or a ValueError (ok = FALSE).
get_next_occurrence(w, t) ==
    LET due == w.tasks[t].due_date
        term == w.tasks[t].recurring_term
        first == parse_from_date(due, term, FALSE)
    IN IF ~first.ok THEN [ok |-> FALSE, date |-> NoDate]
       ELSE IF DateLE(Day(today), due)
            THEN [ok |-> TRUE, date |-> AdvanceWhile(first.date, term, due.day, FALSE)]
            ELSE [ok |-> TRUE, date |-> AdvanceWhile(first.date, term, today, TRUE)]

\* Task.is_parent_recurring
is_parent_recurring(w, t) ==
    \E p \in Range(w.tasks[t].parents) :
        w.tasks[p].loaded /\ w.tasks[p].status = STA_ACTIVE /\ w.tasks[p].recurring

\* Task.add_child, line 688: the child takes the parent's due date.
add_child_due(w, t, tid) == set_due_date(w, tid, w.tasks[t].due_date)

\* Task.add_child, lines 685-688: a child that does not recur takes the
\* parent's dates.
add_child_dates(w, t, tid) ==
    IF ~w.tasks[tid].recurring
    THEN add_child_due(set_start_date(w, tid, w.tasks[t].start_date), t, tid)
    ELSE w

\* Task.add_child, lines 689-690: the child takes the parent's tags, for
\* which the requester has tag objects.
add_child_tags(w, t, tid) ==
    add_tags([w EXCEPT !.registry = @ \cup Range(get_tags_name(w, t))],
             tid, get_tags_name(w, t))

\* Task.add_child, lines 682-692: of a loaded parent, a child that is still
\* deletable inherits dates, tags and recurrence.
add_child_loaded(w, t, tid) ==
    IF w.tasks[t].loaded /\ tid \in DOMAIN w.tasks /\ w.tasks[tid].can_be_deleted
    THEN inherit_recursion(add_child_tags(add_child_dates(w, t, tid), t, tid), tid)
    ELSE w

\* Task.add_child
add_child(w, t, tid) ==
    sync(add_child_loaded(
             tree_add_child([w EXCEPT !.tasks[t].can_be_deleted = FALSE], t, tid),
             t, tid),
         t)

\* TreeNode.set_parent: every other parent goes, par is added when it is not
\* a parent yet; par = 0 stands for None.
tree_set_parent(w, t, par) ==
    LET others == {p \in Range(w.tasks[t].parents) : p # par}
        w1 == [w EXCEPT !.tasks = [x \in DOMAIN @ |->
                  IF x \in others THEN [@[x] EXCEPT !.children = Without(@, t)]
                  ELSE IF x = t
                       THEN [@[x] EXCEPT !.parents =
                                IF par \in Range(@) THEN <<par>> ELSE <<>>]
                       ELSE @[x]]]
    IN IF par = 0 \/ par \in Range(w.tasks[t].parents) THEN w1
       ELSE [w1 EXCEPT !.tasks[par].children = Append(@, t),
                       !.tasks[t].parents = Append(@, par)]

RECURSIVE get_due_date_constraint(_, _)
RECURSIVE constraint_from_parents(_, _, _)
\* Task.get_due_date_constraint, lines 539-559
constraint_from_parents(w, pars, strongest_const_date) ==
    IF pars = <<>> THEN strongest_const_date
    ELSE LET par == Head(pars)
             d0 == w.tasks[par].due_date
             par_duedate == IF is_fuzzy(d0) THEN get_due_date_constraint(w, par) ELSE d0
             strongest == IF is_fuzzy(par_duedate) THEN strongest_const_date
                          ELSE IF is_fuzzy(strongest_const_date) THEN par_duedate
                          ELSE IF DateLT(par_duedate, strongest_const_date) THEN par_duedate
                          ELSE strongest_const_date
         IN constraint_from_parents(w, Tail(pars), strongest)

\* Task.get_due_date_constraint
get_due_date_constraint(w, t) ==
    IF is_fuzzy(w.tasks[t].due_date)
    THEN constraint_from_parents(w, w.tasks[t].parents, w.tasks[t].due_date)
    ELSE w.tasks[t].due_date

\* Task.set_parent, lines 719-726: the task takes the parent's due-date
\* constraint when it is due later, and the parents' recurrence.
set_parent_inherit(w, t, parent_id) ==
    IF parent_id # 0
    THEN LET par_duedate == get_due_date_constraint(w, parent_id)
         IN inherit_recursion(
                IF ~is_fuzzy(par_duedate) /\ ~is_fuzzy(w.tasks[t].due_date)
                   /\ DateLT(par_duedate, w.tasks[t].due_date)
                THEN set_due_date(w, t, par_duedate)
                ELSE w,
                t)
    ELSE w

\* Task.set_parent; parent_id = 0 stands for None.
set_parent(w, t, parent_id) ==
    recursive_sync(set_parent_inherit(tree_set_parent(w, t, parent_id), t, parent_id), t)

\* Task.duplicate, lines 139-140: the copy takes the content and references
\* the very list of tags of the original.
duplicate_fields(w, t, copy) ==
    [w EXCEPT !.tasks[copy].content = w.tasks[t].content,
              !.tasks[copy].tags = w.tasks[t].tags]

\* Task.duplicate, line 138
duplicate_title(w, t, copy) == set_title(w, copy, w.tasks[t].title)

\* Task.duplicate, lines 135-143: the copy is due on the next occurrence,
\* whose computation may raise.
duplicate_due(w, t, copy) ==
    LET nextdate == get_next_occurrence(w, t)
    IN IF ~nextdate.ok THEN [w |-> [w EXCEPT !.raised = TRUE], tid |-> copy]
       ELSE [w |-> duplicate_fields(
                       duplicate_title(set_due_date(w, copy, nextdate.date), t, copy),
                       t, copy),
             tid |-> copy]

\* Task.duplicate, lines 132-143: n is what new_task() returned.
duplicate_recurring(n, t) ==
    duplicate_due(set_recurring(n.w, n.tid, TRUE, n.w.tasks[t].recurring_term, FALSE),
                  t, n.tid)

\* Task.duplicate: the world with the copy, and the copy's identifier.
duplicate(w, t) == duplicate_recurring(new_task(w), t)

RECURSIVE duplicate_recursively(_, _)
RECURSIVE duplicate_children(_, _, _)
\* Task.duplicate_recursively, line 154: the copy r of a child goes under
\* the copy of its parent.
duplicate_child_added(r, newtask) ==
    IF r.w.raised THEN r.w ELSE add_child(r.w, newtask, r.tid)

\* Task.duplicate_recursively, lines 151-154
duplicate_children(w, newtask, subs) ==
    IF subs = <<>> \/ w.raised THEN w
    ELSE duplicate_children(
             IF w.tasks[Head(subs)].loaded
             THEN duplicate_child_added(duplicate_recursively(w, Head(subs)), newtask)
             ELSE w,
             newtask, Tail(subs))

\* Task.duplicate_recursively, line 156
duplicate_synced(w, tid) == IF w.raised THEN w ELSE sync(w, tid)

\* Task.duplicate_recursively, lines 150-157: r is what duplicate() returned.
duplicate_subtasks(r, t) ==
    [w |-> duplicate_synced(
               IF r.w.raised THEN r.w
               ELSE duplicate_children(r.w, r.tid, r.w.tasks[t].children),
               r.tid),
     tid |-> r.tid]

\* Task.duplicate_recursively
duplicate_recursively(w, t) == duplicate_subtasks(duplicate(w, t), t)

\* The duplicate() calls duplicate_recursively makes: one per task it visits.
RECURSIVE CloneCount(_, _)
RECURSIVE CloneCountOf(_, _)
CloneCount(ts, t) == 1 + CloneCountOf(ts, ts[t].children)

CloneCountOf(ts, subs) ==
    IF subs = <<>> THEN 0
    ELSE (IF ts[Head(subs)].loaded THEN CloneCount(ts, Head(subs)) ELSE 0)
         + CloneCountOf(ts, Tail(subs))

\* ----------------------------------------------------------------- status
RECURSIVE set_status(_, _, _, _, _, _)
RECURSIVE close_subtasks(_, _, _, _)
RECURSIVE attach_to_parents(_, _, _)
RECURSIVE reopen_parents(_, _)
RECURSIVE close_subtasks_flat(_, _, _, _)
RECURSIVE close_subtasks_undated(_, _, _, _)
RECURSIVE reopen_parents_flat(_, _)

\* A cascade that closes the children and goes no deeper.
close_subtasks_flat(w, subs, status, donedate) ==
    IF subs = <<>> THEN w
    ELSE LET c == Head(subs)
             w1 == IF w.tasks[c].status = STA_ACTIVE
                   THEN sync([w EXCEPT !.tasks[c].status = status,
                                       !.tasks[c].closed_date =
                                           IF donedate # RawNone THEN donedate
                                           ELSE Day(today)], c)
                   ELSE w
         IN close_subtasks_flat(w1, Tail(subs), status, donedate)

\* A cascade that does not hand the closing date down.
close_subtasks_undated(w, subs, status, donedate) ==
    IF subs = <<>> THEN w
    ELSE close_subtasks_undated(
             IF w.tasks[Head(subs)].status = STA_ACTIVE
             THEN set_status(w, Head(subs), status, RawNone, TRUE, FALSE)
             ELSE w,
             Tail(subs), status, donedate)

\* Task.set_status, lines 191-193: Active children are closed by propagation.
close_subtasks(w, subs, status, donedate) ==
    IF subs = <<>> THEN w
    ELSE close_subtasks(
             IF w.tasks[Head(subs)].status = STA_ACTIVE
             THEN set_status(w, Head(subs), status, donedate, TRUE, FALSE)
             ELSE w,
             Tail(subs), status, donedate)

\* The clone goes under the first parent only.
attach_to_parents_first(w, pars, nexttask_tid) ==
    IF pars = <<>> THEN w
    ELSE LET par == Head(pars)
         IN IF w.tasks[par].loaded /\ w.tasks[par].status = STA_ACTIVE
            THEN sync(add_child(w, par, nexttask_tid), par)
            ELSE w

\* Task.set_status, lines 207-211: the clone goes under every loaded Active parent.
attach_to_parents(w, pars, nexttask_tid) ==
    IF pars = <<>> THEN w
    ELSE attach_to_parents(
             IF w.tasks[Head(pars)].loaded /\ w.tasks[Head(pars)].status = STA_ACTIVE
             THEN sync(add_child(w, Head(pars), nexttask_tid), Head(pars))
             ELSE w,
             Tail(pars), nexttask_tid)

\* A reactivation that reopens the parents and goes no higher.
reopen_parents_flat(w, pars) ==
    IF pars = <<>> THEN w
    ELSE LET par == Head(pars)
             w1 == IF w.tasks[par].loaded
                      /\ w.tasks[par].status \in {STA_DONE, STA_DISMISSED}
                   THEN sync([w EXCEPT !.tasks[par].status = STA_ACTIVE], par)
                   ELSE w
         IN reopen_parents_flat(w1, Tail(pars))

\* Task.set_status, lines 220-227: closed parents are reactivated.
reopen_parents(w, pars) ==
    IF pars = <<>> THEN w
    ELSE reopen_parents(
             IF w.tasks[Head(pars)].loaded
                /\ w.tasks[Head(pars)].status \in {STA_DONE, STA_DISMISSED}
             THEN set_status(w, Head(pars), STA_ACTIVE, RawNone, FALSE, FALSE)
             ELSE w,
             Tail(pars))

\* Task.set_status, lines 205-211: r is what duplicate_recursively returned.
status_attached(r, t) ==
    IF r.w.raised THEN r.w ELSE attach_to_parents(r.w, r.w.tasks[t].parents, r.tid)

\* A task closed by the cascade leaves its next occurrence as well.
status_recurred_cascading(w, t, propagation) ==
    IF w.tasks[t].recurring /\ ~is_parent_recurring(w, t)
    THEN status_attached(duplicate_recursively(w, t), t)
    ELSE w

\* Task.set_status, lines 195-211: a recurring task closed directly, with no
\* Active recurring parent, leaves its next occurrence.
status_recurred(w, t, propagation) ==
    IF w.tasks[t].recurring /\ ~propagation /\ ~is_parent_recurring(w, t)
    THEN status_attached(duplicate_recursively(w, t), t)
    ELSE w

\* Task.set_status, lines 186-229: what a loaded task does to its relatives
\* before it takes the status.
status_propagated(w, t, status, donedate, propagation, old_status) ==
    IF status # None /\ w.tasks[t].loaded
    THEN IF status \in {STA_DONE, STA_DISMISSED}
         THEN status_recurred(
                  close_subtasks(w, w.tasks[t].children, status, donedate),
                  t, propagation)
         ELSE IF status = STA_ACTIVE /\ old_status \in {STA_DONE, STA_DISMISSED}
              THEN reopen_parents(w, w.tasks[t].parents)
              ELSE w
    ELSE w

\* The change of status is scheduled for emission whatever init is.
status_stored_announcing(w, t, status, donedate, init) ==
    LET w2 == IF status # None
              THEN [w EXCEPT !.tasks[t].status = status,
                             !.events = Append(@, <<t, w.tasks[t].status, status>>)]
              ELSE w
        w3 == IF status # None /\ status \in {STA_DONE, STA_DISMISSED}
              THEN [w2 EXCEPT !.tasks[t].closed_date =
                        IF donedate # RawNone /\ DateTruthy(donedate) THEN donedate
                        ELSE Day(today)]
              ELSE w2
    IN IF w.raised THEN w ELSE sync(w3, t)

\* Task.set_status, lines 231-245: the status is stored, its change scheduled
\* for emission, the closing date set and the task synced.
status_stored(w, t, status, donedate, init) ==
    LET w2 == IF status # None
              THEN [w EXCEPT !.tasks[t].status = status,
                             !.events = IF init THEN @
                                        ELSE Append(@, <<t, w.tasks[t].status, status>>)]
              ELSE w
        w3 == IF status # None /\ status \in {STA_DONE, STA_DISMISSED}
              THEN [w2 EXCEPT !.tasks[t].closed_date =
                        IF donedate # RawNone /\ DateTruthy(donedate) THEN donedate
                        ELSE Day(today)]
              ELSE w2
    IN IF w.raised THEN w ELSE sync(w3, t)

\* A call without a status returns before the sync.
set_status_returning(w, t, status, donedate, propagation, init) ==
    IF status = None THEN [w EXCEPT !.tasks[t].can_be_deleted = FALSE]
    ELSE status_stored(
             status_propagated([w EXCEPT !.tasks[t].can_be_deleted = FALSE], t, status,
                               donedate, propagation, w.tasks[t].status),
             t, status, donedate, init)

\* Task.set_status
set_status(w, t, status, donedate, propagation, init) ==
    status_stored(
        status_propagated([w EXCEPT !.tasks[t].can_be_deleted = FALSE], t, status,
                          donedate, propagation, w.tasks[t].status),
        t, status, donedate, init)

\* The parent/child edges the tree holds: acyclic, a parent numbered below
\* its child.
EdgeSets == SUBSET {e \in TIDS \X TIDS : e[1] < e[2]}

\* The tasks ts linked by the edges E, the children and parents lists in
\* ascending order of identifier, or in descending order when rev.
WithEdges(ts, E, rev) ==
    LET Order(S) == IF rev THEN Reverse(SortedSeq(S)) ELSE SortedSeq(S)
    IN [t \in DOMAIN ts |->
          [ts[t] EXCEPT !.children = Order({c \in DOMAIN ts : <<t, c>> \in E}),
                        !.parents = Order({p \in DOMAIN ts : <<p, t>> \in E})]]

NoNotified == [t \in IDS |-> 0]

NoOp == [op |-> "init", tid |-> 0, arg |-> RawNone, again |-> FALSE, ok_before |-> FALSE]

\* A call starts with no notification counted and no event scheduled.
Entry == [World EXCEPT !.notified = NoNotified, !.events = <<>>]

Returns(w) ==
    /\ tasks' = w.tasks
    /\ lists' = w.lists
    /\ registry' = w.registry
    /\ notified' = w.notified
    /\ events' = w.events

\* --------------------------------------------------- the due-date constraint
RECURSIVE NearestDefinedAncestors(_, _)
\* The nearest ancestors with a non-fuzzy due date, on every parent path.
NearestDefinedAncestors(ts, t) ==
    UNION {IF is_fuzzy(ts[p].due_date) THEN NearestDefinedAncestors(ts, p) ELSE {p} :
           p \in Range(ts[t].parents)}

DueConstraint(ts) ==
    \A c \in DOMAIN ts :
        ~is_fuzzy(ts[c].due_date) =>
            \A a \in NearestDefinedAncestors(ts, c) :
                ts[c].due_date.day <= ts[a].due_date.day

\* The record of the call a step makes: what was called, on which task, with
\* which argument, whether it repeats the call made just before it, and
\* whether the graph respected the due-date constraint when it was made.
Called(op, tid, arg) ==
    [op |-> op, tid |-> tid, arg |-> arg,
     again |-> (last.op = op /\ last.tid = tid /\ last.arg = arg),
     ok_before |-> DueConstraint(tasks)]

\* ------------------------------------------------ specification: due dates
\* Loaded tasks in any acyclic graph with any due dates; either no task has a
\* start date or all start on day MaxDate.  A caller sets one due date and
\* may then repeat that very call.
InitDue ==
    /\ today = 1
    /\ lists = [t \in IDS |-> <<>>]
    /\ registry = {}
    /\ notified = NoNotified
    /\ events = <<>>
    /\ last = NoOp
    /\ ctxs = <<>>
    /\ \E E \in EdgeSets,
          due \in [TIDS -> {NoDate, Someday} \cup {Day(n) : n \in 1..MaxDate}],
          start \in {NoDate, Day(MaxDate)}, rev \in BOOLEAN :
          tasks = WithEdges([t \in TIDS |->
                      [NewTask(t, TRUE) EXCEPT !.due_date = due[t],
                           !.start_date = start,
                           !.can_be_deleted = FALSE]], E, rev)

CallSetDueDate ==
    /\ last.op = "init"
    /\ \E t \in DOMAIN tasks, d \in DateInputs :
          /\ Returns(set_due_date(Entry, t, d))
          /\ last' = Called("set_due_date", t, d)
          /\ UNCHANGED <<today, ctxs>>

RepeatSetDueDate ==
    /\ last.op = "set_due_date"
    /\ Returns(set_due_date(Entry, last.tid, last.arg))
    /\ last' = Called("set_due_date", last.tid, last.arg)
    /\ UNCHANGED <<today, ctxs>>

NextDue == CallSetDueDate \/ RepeatSetDueDate

SpecDue == InitDue /\ [][NextDue]_vars

\* C1: from a graph where no task with a non-fuzzy due date is due later than
\* its nearest non-fuzzy-due ancestor on any parent path, every set_due_date
\* call returns with that holding again.
C1_DueConstraintKept ==
    (last.op = "set_due_date" /\ last.ok_before) => DueConstraint(tasks)

\* A call on a constraint-respecting graph that pulled a parent forward.
C1_Witness ==
    /\ last.op = "set_due_date"
    /\ last.ok_before
    /\ ~last.again
    /\ ~is_fuzzy(Date(last.arg))
    /\ \E p \in Range(tasks[last.tid].parents) :
          /\ notified[p] > 0
          /\ tasks[p].due_date = Date(last.arg)
          /\ tasks[p].children # <<last.tid>>

\* C9: a second set_due_date(d) right after a first set_due_date(d) on the
\* same task changes no task and notifies no task.
C9_RepeatIsNoOp ==
    [][(last.op = "set_due_date" /\ last'.op = "set_due_date"
            /\ last'.tid = last.tid /\ last'.arg = last.arg)
        => (tasks' = tasks /\ lists' = lists
            /\ \A t \in IDS : notified'[t] = 0)]_vars

\* The repeated call was made after a first call that cascaded to another task.
C9_Witness ==
    /\ last.op = "set_due_date"
    /\ last.again
    /\ ~is_fuzzy(Date(last.arg))
    /\ \E p \in Range(tasks[last.tid].parents) : tasks[p].due_date = Date(last.arg)
    /\ \E c \in Range(tasks[last.tid].children) :
          tasks[c].due_date = Date(last.arg) /\ tasks[c].start_date = Date(last.arg)

\* C10: a set_due_date call changes the due date of no other task whose due
\* date is fuzzy or undefined; and with grandparent (due D1) -> parent (fuzzy)
\* -> child, set_due_date(D2) on the child with D2 > D1 leaves the grandparent
\* due on D2 and the parent fuzzy.
C10_FuzzyTransparent ==
    [][last'.op = "set_due_date" =>
        /\ \A t \in DOMAIN tasks :
              (t # last'.tid /\ is_fuzzy(tasks[t].due_date))
                  => tasks'[t].due_date = tasks[t].due_date
        /\ \A p \in Range(tasks[last'.tid].parents) :
              \A g \in Range(tasks[p].parents) :
                 (/\ is_fuzzy(tasks[p].due_date)
                  /\ ~is_fuzzy(tasks[g].due_date)
                  /\ ~is_fuzzy(Date(last'.arg))
                  /\ tasks[g].due_date.day < Date(last'.arg).day)
                 => (tasks'[g].due_date = Date(last'.arg)
                     /\ tasks'[p].due_date = tasks[p].due_date)]_vars

\* The grandparent was pulled forward through a parent that is still fuzzy.
C10_Witness ==
    /\ last.op = "set_due_date"
    /\ last.ok_before
    /\ ~last.again
    /\ ~is_fuzzy(Date(last.arg))
    /\ \E p \in Range(tasks[last.tid].parents) :
          /\ is_fuzzy(tasks[p].due_date)
          /\ \E g \in Range(tasks[p].parents) :
                /\ tasks[g].due_date = Date(last.arg)
                /\ notified[g] > 0
                /\ g \notin Range(tasks[last.tid].parents)

\* ------------------------------------------------------- the status tree
RECURSIVE Descendants(_, _)
Descendants(ts, t) ==
    Range(ts[t].children) \cup UNION {Descendants(ts, c) : c \in Range(ts[t].children)}

RECURSIVE Ancestors(_, _)
Ancestors(ts, t) ==
    Range(ts[t].parents) \cup UNION {Ancestors(ts, p) : p \in Range(ts[t].parents)}

\* The other children of the task's parents, those that are not also above it.
Siblings(ts, t) ==
    (UNION {Range(ts[p].children) : p \in Range(ts[t].parents)}) \ ({t} \cup Ancestors(ts, t))

Closed == {STA_DONE, STA_DISMISSED}

RECURSIVE ClosedLoadedAbove(_, _)
\* The parents a reactivation reaches: loaded and closed, and those of each such parent.
ClosedLoadedAbove(ts, t) ==
    LET ps == {p \in Range(ts[t].parents) : ts[p].loaded /\ ts[p].status \in Closed}
    IN ps \cup UNION {ClosedLoadedAbove(ts, p) : p \in ps}

NoActiveUnderClosed(ts) ==
    \A t \in DOMAIN ts :
        ts[t].status = STA_ACTIVE => \A a \in Ancestors(ts, t) : ts[a].status = STA_ACTIVE

AllLoaded(ts) == \A t \in DOMAIN ts : ts[t].loaded

\* Whether set_status(status) on t reaches the duplication of lines 202-205.
Spawns(w, t, status) ==
    /\ status \in Closed
    /\ w.tasks[t].loaded
    /\ w.tasks[t].recurring
    /\ ~is_parent_recurring(w, t)

\* The record of a set_status call, with the due date the task had and the
\* tasks the call created.
StatusCalled(t, status, donedate, w) ==
    [op |-> "set_status", tid |-> t, arg |-> status, donedate |-> donedate,
     raised |-> w.raised,
     due |-> tasks[t].due_date,
     created |-> DOMAIN w.tasks \ DOMAIN tasks,
     first |-> FALSE]

TagA == <<"a">>

\* ---------------------------------------------------- specification: status
\* Tasks in any acyclic graph, all Active, at most one of them not loaded.
\* Callers set the status of loaded tasks.
InitStatus ==
    /\ today = MaxDate
    /\ events = <<>>
    /\ last = NoOp
    /\ ctxs = <<>>
    /\ notified = NoNotified
    /\ lists = [t \in IDS |-> <<>>]
    /\ registry = {}
    /\ \E E \in EdgeSets, unl \in SUBSET TIDS :
          /\ Cardinality(unl) <= 1
          /\ tasks = WithEdges([t \in TIDS |->
                         [NewTask(t, FALSE) EXCEPT !.loaded = t \notin unl]], E, FALSE)

CallSetStatus ==
    /\ \E t \in DOMAIN tasks, status \in {STA_ACTIVE, STA_DONE, STA_DISMISSED},
          donedate \in {RawNone, Day(1)} :
          /\ tasks[t].loaded
          /\ \E w \in {set_status(Entry, t, status, donedate, FALSE, FALSE)} :
                Returns(w) /\ last' = StatusCalled(t, status, donedate, w)
    /\ UNCHANGED <<today, ctxs>>

NextStatus == CallSetStatus

SpecStatus == InitStatus /\ [][NextStatus]_vars

\* C2: after any sequence of set_status calls on loaded tasks, from a tree
\* where every task is Active, no task is Active under a Done or Dismissed
\* ancestor.
C2_NoActiveUnderClosed == NoActiveUnderClosed(tasks)

\* C2, for a tree whose tasks are all loaded.
C2_NoActiveUnderClosedLoaded == AllLoaded(tasks) => NoActiveUnderClosed(tasks)

\* In a fully loaded tree a closed task was reactivated and its parent with
\* it, while its own child stays closed.
C2_Witness ==
    /\ AllLoaded(tasks)
    /\ last.op = "set_status"
    /\ last.arg = STA_ACTIVE
    /\ \E p \in Range(tasks[last.tid].parents) : notified[p] > 0
    /\ \E c \in Range(tasks[last.tid].children) : tasks[c].status \in Closed

\* The closing date a set_status(Done, donedate) call leaves.
ClosingDate(donedate) == IF donedate # RawNone THEN donedate ELSE Day(today)

\* C3: set_status(Done, donedate) on a loaded task whose descendants are all
\* Active leaves the task and every descendant Done, each closed on donedate
\* when one is supplied and today otherwise.
C3_CascadeDone ==
    [][(/\ last'.op = "set_status"
        /\ last'.arg = STA_DONE
        /\ \A d \in Descendants(tasks, last'.tid) : tasks[d].status = STA_ACTIVE)
       => \A x \in {last'.tid} \cup Descendants(tasks, last'.tid) :
             /\ tasks'[x].status = STA_DONE
             /\ tasks'[x].closed_date = ClosingDate(last'.donedate)]_vars

\* C3, for a task whose descendants are all loaded.
C3_CascadeDoneLoaded ==
    [][(/\ last'.op = "set_status"
        /\ last'.arg = STA_DONE
        /\ \A d \in Descendants(tasks, last'.tid) :
              tasks[d].status = STA_ACTIVE /\ tasks[d].loaded)
       => \A x \in {last'.tid} \cup Descendants(tasks, last'.tid) :
             /\ tasks'[x].status = STA_DONE
             /\ tasks'[x].closed_date = ClosingDate(last'.donedate)]_vars

\* A task whose descendants, a child and a grandchild, were loaded and Active
\* was closed on a supplied date that is not today.
C3_Witness ==
    /\ last.op = "set_status"
    /\ last.arg = STA_DONE
    /\ last.donedate # RawNone
    /\ last.donedate # Day(today)
    /\ \A d \in Descendants(tasks, last.tid) : tasks[d].loaded /\ notified[d] > 0
    /\ \E c \in Range(tasks[last.tid].children) :
          \E g \in Range(tasks[c].children) : tasks[g].closed_date = last.donedate

InitRecur ==
    /\ today \in {1, MaxDate + 1}
    /\ events = <<>>
    /\ last = NoOp
    /\ ctxs = <<>>
    /\ notified = NoNotified
    /\ lists = [t \in IDS |-> <<>>]
    /\ registry = {}
    /\ \E E \in EdgeSets, unl \in SUBSET TIDS :
          /\ Cardinality(unl) <= 1
          /\ tasks = WithEdges([t \in TIDS |->
                         [NewTask(t, FALSE) EXCEPT !.loaded = t \notin unl]], E, FALSE)

TagOne ==
    /\ last.op = "init"
    /\ \E t \in DOMAIN tasks :
          /\ Returns(add_tag(Entry, t, TagA))
          /\ last' = [op |-> "add_tag", tid |-> t, arg |-> TagA]
    /\ UNCHANGED <<today, ctxs>>

MakeRecurring ==
    /\ last.op \in {"init", "add_tag"}
    /\ \E t \in DOMAIN tasks :
          /\ Returns(set_recurring(Entry, t, TRUE, "day", FALSE))
          /\ last' = [op |-> "set_recurring", tid |-> t, arg |-> "day"]
    /\ UNCHANGED <<today, ctxs>>

GiveDueDate ==
    /\ last.op = "set_recurring"
    /\ \E D \in 1..MaxDate :
          /\ Returns(set_due_date(Entry, last.tid, Day(D)))
          /\ last' = [op |-> "set_due_date", tid |-> last.tid, arg |-> Day(D)]
    /\ UNCHANGED <<today, ctxs>>

SetStatusRecurring ==
    /\ last.op = "set_due_date" \/ (last.op = "set_status" /\ last.first)
    /\ \E t \in DOMAIN tasks, status \in {STA_ACTIVE, STA_DONE, STA_DISMISSED} :
          /\ tasks[t].loaded
          /\ Spawns(World, t, status)
                => CloneCount(tasks, t) <= Cardinality(IDS \ DOMAIN tasks)
          /\ \E w \in {set_status(Entry, t, status, RawNone, FALSE, FALSE)} :
                /\ Returns(w)
                /\ last' = [StatusCalled(t, status, RawNone, w)
                               EXCEPT !.first = (last.op = "set_due_date")]
    /\ UNCHANGED <<today, ctxs>>

NextRecur == TagOne \/ MakeRecurring \/ GiveDueDate \/ SetStatusRecurring

SpecRecur == InitRecur /\ [][NextRecur]_vars

\* The day after due date d that is not before today.
NextDay(d) == IF d.day + 1 >= today THEN Day(d.day + 1) ELSE Day(today)

\* What C5 is about: set_status(Done) on a childless task that recurs every
\* day, has a due date, and has no Active recurring parent.
C5_Case ==
    /\ last'.op = "set_status"
    /\ last'.arg = STA_DONE
    /\ tasks[last'.tid].recurring
    /\ tasks[last'.tid].recurring_term = "day"
    /\ tasks[last'.tid].children = <<>>
    /\ ~is_fuzzy(tasks[last'.tid].due_date)
    /\ \A p \in Range(tasks[last'.tid].parents) :
          ~(tasks[p].status = STA_ACTIVE /\ tasks[p].recurring)

\* The call created exactly the task n, due on date due, with the original's
\* title and tags, recurring every day, under each parent in pars.
C5_Spawned(due, pars) ==
    \E n \in IDS :
        /\ DOMAIN tasks' = DOMAIN tasks \cup {n}
        /\ n \notin DOMAIN tasks
        /\ tasks'[n].due_date = due
        /\ tasks'[n].title = tasks'[last'.tid].title
        /\ lists'[tasks'[n].tags] = lists'[tasks'[last'.tid].tags]
        /\ tasks'[n].recurring
        /\ tasks'[n].recurring_term = "day"
        /\ \A p \in pars : n \in Range(tasks'[p].children) /\ p \in Range(tasks'[n].parents)

InitDates ==
    /\ today = 1
    /\ lists = [t \in IDS |-> <<>>]
    /\ registry = {}
    /\ notified = NoNotified
    /\ events = <<>>
    /\ last = NoOp
    /\ ctxs = <<>>
    /\ \E E \in EdgeSets, fresh \in SUBSET TIDS :
          /\ Cardinality(fresh) <= 1
          /\ tasks = WithEdges([t \in TIDS |->
                         [NewTask(t, TRUE) EXCEPT !.can_be_deleted = t \in fresh]], E, FALSE)

\* The first call of a behaviour, or the one after it.
MayCall == IF last.op = "init" THEN TRUE ELSE last.first

DateCalled(op, tid, arg) == [op |-> op, tid |-> tid, arg |-> arg, first |-> last.op = "init"]

DatesSetStartDate ==
    /\ MayCall
    /\ \E t \in DOMAIN tasks, d \in DateInputs :
          /\ Returns(set_start_date(Entry, t, d))
          /\ last' = DateCalled("set_start_date", t, d)
    /\ UNCHANGED <<today, ctxs>>

DatesSetDueDate ==
    /\ MayCall
    /\ \E t \in DOMAIN tasks, d \in DateInputs :
          /\ Returns(set_due_date(Entry, t, d))
          /\ last' = DateCalled("set_due_date", t, d)
    /\ UNCHANGED <<today, ctxs>>

DatesAddChild ==
    /\ MayCall
    /\ \E t \in DOMAIN tasks, c \in DOMAIN tasks :
          /\ c # t
          /\ t \notin Descendants(tasks, c)
          /\ Returns(add_child(Entry, t, c))
          /\ last' = DateCalled("add_child", t, c)
    /\ UNCHANGED <<today, ctxs>>

DatesSetParent ==
    /\ MayCall
    /\ \E t \in DOMAIN tasks, par \in {0} \cup DOMAIN tasks :
          /\ par # t
          /\ par # 0 => par \notin Descendants(tasks, t)
          /\ Returns(set_parent(Entry, t, par))
          /\ last' = DateCalled("set_parent", t, par)
    /\ UNCHANGED <<today, ctxs>>

DatesSetRecurring ==
    /\ MayCall
    /\ \E t \in DOMAIN tasks, recurring \in BOOLEAN, term \in {None, "day"},
          newtask \in BOOLEAN :
          /\ Returns(set_recurring(Entry, t, recurring, term, newtask))
          /\ last' = DateCalled("set_recurring", t, <<recurring, term, newtask>>)
    /\ UNCHANGED <<today, ctxs>>

NextDates ==
    \/ DatesSetStartDate
    \/ DatesSetDueDate
    \/ DatesAddChild
    \/ DatesSetParent
    \/ DatesSetRecurring

SpecDates == InitDates /\ [][NextDates]_vars

StartNotAfterDue(ts) ==
    \A t \in DOMAIN ts :
        (~is_fuzzy(ts[t].due_date) /\ ~is_fuzzy(ts[t].start_date))
            => ts[t].start_date.day <= ts[t].due_date.day

\* C6: after set_start_date, set_due_date, add_child, set_parent or
\* set_recurring returns, no task with a non-fuzzy due date has a non-fuzzy
\* start date later than that due date.
C6_StartNotAfterDue ==
    last.op \in {"set_start_date", "set_due_date", "add_child", "set_parent", "set_recurring"}
        => StartNotAfterDue(tasks)

\* ----------------------------------------------------- specification: tags
Fo == <<"f", "o">>

Foo == <<"f", "o", "o">>

TagNames == {Fo, Foo}

Hi == <<"h", "i">>

\* The content and tags the established tasks start with: nothing, plain
\* text, or one tag and its marker.
StartKinds == {[content |-> <<>>, tags |-> <<>>], [content |-> Hi, tags |-> <<>>]}
                  \cup {[content |-> <<"@">> \o n, tags |-> <<n>>] : n \in TagNames}

\* Loaded tasks in any acyclic graph, at most one of them still deletable and
\* empty, the others all starting with the same content and tags.  A caller
\* makes one tag call, and a caller makes one more.
InitTags ==
    /\ today = 1
    /\ notified = NoNotified
    /\ events = <<>>
    /\ last = NoOp
    /\ ctxs = <<>>
    /\ \E E \in EdgeSets, fresh \in SUBSET TIDS, k \in StartKinds :
          /\ Cardinality(fresh) <= 1
          /\ tasks = WithEdges([t \in TIDS |->
                         [NewTask(t, TRUE) EXCEPT !.can_be_deleted = t \in fresh,
                              !.content = IF t \in fresh THEN <<>> ELSE k.content]],
                         E, FALSE)
          /\ lists = [t \in IDS |-> IF t \in TIDS \ fresh THEN k.tags ELSE <<>>]
          /\ registry = IF fresh = TIDS THEN {} ELSE Range(k.tags)

\* The separator add_tag chooses for the content c.
SeparatorCase(c) ==
    IF c = <<>> THEN "empty" ELSE IF startswith(c, <<"@">>) THEN "tag" ELSE "text"

\* The record of a tag call: whether the task had the tag, its tags and the
\* separator case of its content before the call.
TagCalled(op, t, arg, name) ==
    [op |-> op, tid |-> t, arg |-> arg, first |-> last.op = "init",
     had |-> name \in Range(lists[tasks[t].tags]),
     tags_before |-> lists[tasks[t].tags],
     case |-> SeparatorCase(tasks[t].content)]

CallAddTag ==
    /\ MayCall
    /\ \E t \in DOMAIN tasks, name \in TagNames :
          /\ Returns(add_tag(Entry, t, name))
          /\ last' = TagCalled("add_tag", t, name, name)
    /\ UNCHANGED <<today, ctxs>>

CallRemoveTag ==
    /\ MayCall
    /\ \E t \in DOMAIN tasks, name \in TagNames :
          /\ Returns(remove_tag(Entry, t, name))
          /\ last' = TagCalled("remove_tag", t, name, name)
    /\ UNCHANGED <<today, ctxs>>

CallRenameTag ==
    /\ MayCall
    /\ \E t \in DOMAIN tasks, old \in TagNames, new \in TagNames :
          /\ old # new
          /\ Returns(rename_tag(Entry, t, old, new))
          /\ last' = TagCalled("rename_tag", t, <<old, new>>, old)
    /\ UNCHANGED <<today, ctxs>>

NextTags == CallAddTag \/ CallRemoveTag \/ CallRenameTag

SpecTags == InitTags /\ [][NextTags]_vars

NoDuplicates(s) == \A i, j \in 1..Len(s) : s[i] = s[j] => i = j

TagChars == {"f", "o"}

\* The marker of the tag name stands in text: "@" and the name, with no
\* further character of a name after it.
MarkerIn(text, name) ==
    \E i \in 1..Len(text) :
        /\ MatchAt(text, <<"@">> \o name, i)
        /\ i + Len(name) + 1 <= Len(text) => text[i + Len(name) + 1] \notin TagChars

\* C7: after any add_tag, remove_tag and rename_tag calls, every task's tags
\* are duplicate-free and hold a name exactly when the marker of that name is
\* in the task's content.
C7_TagsMatchMarkers ==
    \A t \in DOMAIN tasks :
        /\ NoDuplicates(lists[tasks[t].tags])
        /\ \A name \in TagNames :
              name \in Range(lists[tasks[t].tags]) <=> MarkerIn(tasks[t].content, name)

\* C8: on a task without the tag, add_tag(name) followed by remove_tag(name)
\* leaves no "@name" in the content and the tags as they were before, whether
\* the content was empty, started with another tag's marker or with text.
C8_AddRemoveRoundTrip ==
    [][(/\ last.op = "add_tag"
        /\ ~last.had
        /\ last'.op = "remove_tag"
        /\ last'.tid = last.tid
        /\ last'.arg = last.arg)
       => /\ ~Contains(tasks'[last.tid].content, <<"@">> \o last.arg)
          /\ lists'[tasks'[last.tid].tags] = last.tags_before]_vars

\* A tag was added in front of another tag's marker and then removed; the
\* other tag and its marker are still there.
C8_Witness ==
    /\ last.op = "remove_tag"
    /\ ~last.first
    /\ last.had
    /\ last.case = "tag"
    /\ last.arg = Foo
    /\ last.tags_before = <<Fo, Foo>>
    /\ lists[tasks[last.tid].tags] = <<Fo>>
    /\ tasks[last.tid].content = <<"@">> \o Fo

\* -------------------------------------------- specification: suspended sync
\* Context managers a behaviour may have entered at once.
MaxCtxs == 2

\* Calls a behaviour makes besides leaving contexts.
MaxCtxCalls == 4

TitleA == <<"A">>

\* DisabledSyncCtx.__enter__
DisabledSyncCtx_enter(w, ctx) == [w EXCEPT !.tasks[ctx.task].sync_disabled = TRUE]

\* DisabledSyncCtx.__exit__, lines 932-933
DisabledSyncCtx_exit_sync(w, ctx) == IF ctx.sync_on_exit THEN sync(w, ctx.task) ELSE w

\* DisabledSyncCtx.__exit__
DisabledSyncCtx_exit(w, ctx) ==
    DisabledSyncCtx_exit_sync([w EXCEPT !.tasks[ctx.task].sync_disabled = FALSE], ctx)

CtxNoOp == [op |-> "init", tid |-> 0, arg |-> RawNone, raised |-> FALSE, calls |-> 0]

\* The record of a call made with contexts entered: raised tells that an
\* exception is unwinding the with statements still entered.
CtxCalled(op, tid, arg, w, left) ==
    [op |-> op, tid |-> tid, arg |-> arg,
     raised |-> w.raised /\ left # <<>>,
     calls |-> last.calls + 1]

\* Loaded tasks in any acyclic graph, at most one of them not loaded.
\* Callers enter with statements on tasks, mutate tasks inside and outside
\* of them, and leave them innermost first, normally or by an exception.
InitCtx ==
    /\ today = 1
    /\ lists = [t \in IDS |-> <<>>]
    /\ registry = {}
    /\ notified = NoNotified
    /\ events = <<>>
    /\ last = CtxNoOp
    /\ ctxs = <<>>
    /\ \E E \in EdgeSets, unl \in SUBSET TIDS :
          /\ Cardinality(unl) <= 1
          /\ tasks = WithEdges([t \in TIDS |->
                         [NewTask(t, TRUE) EXCEPT !.loaded = t \notin unl,
                              !.can_be_deleted = FALSE]], E, FALSE)

CtxMayCall == ~last.raised /\ last.calls < MaxCtxCalls

CtxEnter ==
    /\ CtxMayCall
    /\ Len(ctxs) < MaxCtxs
    /\ \E t \in DOMAIN tasks, sync_on_exit \in BOOLEAN :
          \E ctx \in {[task |-> t, sync_on_exit |-> sync_on_exit]} :
             /\ Returns(DisabledSyncCtx_enter(Entry, ctx))
             /\ ctxs' = Append(ctxs, ctx)
             /\ last' = CtxCalled("enter", t, sync_on_exit, Entry, ctxs)
    /\ UNCHANGED today

CtxSetTitle ==
    /\ CtxMayCall
    /\ \E t \in DOMAIN tasks :
          /\ Returns(set_title(Entry, t, TitleA))
          /\ last' = CtxCalled("set_title", t, TitleA, Entry, ctxs)
    /\ UNCHANGED <<today, ctxs>>

CtxSetDueDate ==
    /\ CtxMayCall
    /\ \E t \in DOMAIN tasks, D \in 1..MaxDate :
          /\ Returns(set_due_date(Entry, t, Day(D)))
          /\ last' = CtxCalled("set_due_date", t, Day(D), Entry, ctxs)
    /\ UNCHANGED <<today, ctxs>>

\* rename_tag of a name the requester has no tag for: the call raises.
CtxRenameTag ==
    /\ CtxMayCall
    /\ \E t \in DOMAIN tasks :
          \E w \in {rename_tag(Entry, t, <<"f", "o">>, <<"f", "o", "o">>)} :
             /\ Returns(w)
             /\ last' = CtxCalled("rename_tag", t, <<"f", "o">>, w, ctxs)
    /\ UNCHANGED <<today, ctxs>>

\* The innermost with statement is left, normally or by the exception that
\* is unwinding; __exit__ returns None, so the exception goes on.
CtxExit ==
    /\ ctxs # <<>>
    /\ Returns(DisabledSyncCtx_exit(Entry, ctxs[Len(ctxs)]))
    /\ ctxs' = SubSeq(ctxs, 1, Len(ctxs) - 1)
    /\ last' = [op |-> "exit", tid |-> ctxs[Len(ctxs)].task,
                arg |-> ctxs[Len(ctxs)].sync_on_exit,
                raised |-> last.raised /\ Len(ctxs) > 1,
                calls |-> last.calls]
    /\ UNCHANGED today

NextCtx == CtxEnter \/ CtxSetTitle \/ CtxSetDueDate \/ CtxRenameTag \/ CtxExit

SpecCtx == InitCtx /\ [][NextCtx]_vars

\* C11: while a DisabledSyncCtx is active on a task no sync() on that task
\* invokes the notify hook, whatever is mutated; leaving the context performs
\* exactly one sync() on the task (one notification of a loaded task) when
\* sync_on_exit is true and none when it is false, on a normal exit and on an
\* exception alike.
C11_SyncSuspended ==
    [][/\ last'.op \in {"set_title", "set_due_date", "rename_tag"}
            => \A i \in 1..Len(ctxs) : notified'[ctxs[i].task] = 0
       /\ last'.op = "exit"
            => notified'[last'.tid] =
                  (IF last'.arg /\ tasks[last'.tid].loaded THEN 1 ELSE 0)]_vars

\* ------------------------------------------ specification: recurrence terms
\* The terms a caller passes: none, two that parse and one that does not.
Terms == {None, "day", "other-day", "bogus"}

\* is_valid_term of set_recurring, lines 293-312, for the task t of ts.
TermValid(ts, t, term) ==
    /\ term # None
    /\ parse_from_date(IF ts[t].start_date = NoDate THEN Day(today) ELSE ts[t].start_date,
                       term, FALSE).ok

\* The record of a set_recurring call.
TermCalled(t, recurring, term, newtask, w) ==
    [op |-> "set_recurring", tid |-> t, arg |-> <<recurring, term, newtask>>,
     raised |-> w.raised, first |-> last.op = "init"]

\* Tasks in any acyclic graph, not recurring, with no start date or all
\* starting on day 1; at most one of them is not loaded or is Done with all
\* its descendants.  A caller makes one set_recurring call, and a caller
\* makes one more.
InitTerm ==
    /\ today = 1
    /\ lists = [t \in IDS |-> <<>>]
    /\ registry = {}
    /\ notified = NoNotified
    /\ events = <<>>
    /\ last = NoOp
    /\ ctxs = <<>>
    /\ \E E \in EdgeSets, unl \in SUBSET TIDS, done \in SUBSET TIDS,
          start \in {NoDate, Day(1)} :
          /\ Cardinality(unl) <= 1
          /\ unl # {} => done = {}
          /\ \E ts \in {WithEdges([t \in TIDS |->
                           [NewTask(t, FALSE) EXCEPT !.loaded = t \notin unl,
                                !.start_date = start,
                                !.status = IF t \in done THEN STA_DONE ELSE STA_ACTIVE,
                                !.closed_date = IF t \in done THEN Day(1) ELSE NoDate]],
                           E, FALSE)} :
                /\ Cardinality({t \in done : \A a \in done : t \notin Descendants(ts, a)}) <= 1
                /\ \A t \in done : Descendants(ts, t) \subseteq done
                /\ tasks = ts

TermSetRecurring ==
    /\ MayCall
    /\ \E t \in DOMAIN tasks, recurring \in BOOLEAN, term \in Terms, newtask \in BOOLEAN :
          \E w \in {set_recurring(Entry, t, recurring, term, newtask)} :
             /\ Returns(w)
             /\ last' = TermCalled(t, recurring, term, newtask, w)
    /\ UNCHANGED <<today, ctxs>>

NextTerm == TermSetRecurring

SpecTerm == InitTerm /\ [][NextTerm]_vars

\* C12: set_recurring(False, term) with a valid term leaves the task
\* recurring, with recurring_term = term.
C12_ValidTermArms ==
    [][(/\ last'.op = "set_recurring"
        /\ ~last'.arg[1]
        /\ TermValid(tasks, last'.tid, last'.arg[2]))
       => /\ tasks'[last'.tid].recurring
          /\ tasks'[last'.tid].recurring_term = last'.arg[2]]_vars

RECURSIVE ReachableActive(_, _)
\* The descendants of t reached through loaded Active children.
ReachableActive(ts, t) ==
    LET cs == {c \in Range(ts[t].children) : ts[c].loaded /\ ts[c].status = STA_ACTIVE}
    IN cs \cup UNION {ReachableActive(ts, c) : c \in cs}

C18_InvalidTermDegrades ==
    [][(/\ last'.op = "set_recurring"
        /\ ~TermValid(tasks, last'.tid, last'.arg[2]))
       => /\ ~last'.raised
          /\ ~tasks'[last'.tid].recurring
          /\ tasks'[last'.tid].recurring_term =
                (IF last'.arg[1] THEN None ELSE tasks[last'.tid].recurring_term)]_vars

\* A task that had a term was disarmed with a term that does not parse and
\* still has the term it had.
C18_Witness ==
    /\ last.op = "set_recurring"
    /\ ~last.first
    /\ ~last.arg[1]
    /\ last.arg[2] = "bogus"
    /\ ~last.raised
    /\ ~tasks[last.tid].recurring
    /\ tasks[last.tid].recurring_term = "other-day"

\* ------------------------------------------------- specification: lifecycle
\* Calls a behaviour makes on the tasks.
MaxLifeCalls == 3

Amp == <<"&", "a", "m", "p", ";", "l", "t", ";">>

\* The character references html.escape writes, and what they stand for.
CharRefs ==
    {[ref |-> <<"&", "a", "m", "p", ";">>, char |-> "&"],
     [ref |-> <<"&", "l", "t", ";">>, char |-> "<"],
     [ref |-> <<"&", "g", "t", ";">>, char |-> ">"],
     [ref |-> <<"&", "q", "u", "o", "t", ";">>, char |-> "\""],
     [ref |-> <<"&", "#", "x", "2", "7", ";">>, char |-> "'"]}

RECURSIVE UnescapeFrom(_, _)
UnescapeFrom(text, i) ==
    IF i > Len(text) THEN <<>>
    ELSE IF \E r \in CharRefs : MatchAt(text, r.ref, i)
         THEN LET r == CHOOSE x \in CharRefs : MatchAt(text, x.ref, i)
              IN <<r.char>> \o UnescapeFrom(text, i + Len(r.ref))
         ELSE <<text[i]>> \o UnescapeFrom(text, i + 1)

\* html.unescape: every character reference replaced, in one pass.
html_unescape(text) == UnescapeFrom(text, 1)

\* Task.set_text
set_text(w, t, texte) ==
    [w EXCEPT !.tasks[t].can_be_deleted = FALSE,
              !.tasks[t].content = html_unescape(texte)]

\* TreeNode.remove_parent: the edge p -> c goes.
tree_remove_parent(w, c, p) ==
    [w EXCEPT !.tasks[p].children = Without(@, c),
              !.tasks[c].parents = Without(@, p)]

\* requester.delete_task: the task leaves the store and the lists of the
\* tasks it was linked to.
delete_task(w, tid) ==
    [w EXCEPT !.tasks = [x \in DOMAIN @ \ {tid} |->
                            [@[x] EXCEPT !.children = Without(@, tid),
                                         !.parents = Without(@, tid)]]]

\* Task.remove_child, lines 704-709
remove_child_deletable(w, t, tid) ==
    IF w.tasks[tid].can_be_deleted THEN sync(delete_task(w, tid), t) ELSE w

\* Task.remove_child
remove_child(w, t, tid) == remove_child_deletable(tree_remove_parent(w, tid, t), t, tid)

\* Task.new_subtask, line 670: n is what new_task() returned.
new_subtask_added(n, t) == [w |-> add_child(n.w, t, n.tid), tid |-> n.tid]

\* Task.new_subtask: the world after the call and the subtask's identifier.
new_subtask(w, t) == new_subtask_added(new_task(w), t)

LifeNoOp == [op |-> "init", tid |-> 0, arg |-> RawNone, calls |-> 0]

\* The record of a call: was_new tells whether the task it was made on
\* could be deleted before it, kept the parents a removed child still had.
LifeCalled(op, tid, arg) ==
    [op |-> op, tid |-> tid, arg |-> arg, calls |-> last.calls + 1,
     was_new |-> tasks[tid].can_be_deleted,
     kept |-> IF op = "remove_child" THEN Range(tasks[arg].parents) \ {tid} ELSE {}]

\* Loaded tasks in any acyclic graph; some of the childless ones are fresh
\* from new_task(), the others are established.  Callers edit titles and
\* content, add tags, add, create and remove children.
InitLife ==
    /\ today = 1
    /\ lists = [t \in IDS |-> <<>>]
    /\ registry = {}
    /\ notified = NoNotified
    /\ events = <<>>
    /\ last = LifeNoOp
    /\ ctxs = <<>>
    /\ \E E \in EdgeSets, fresh \in SUBSET TIDS :
          /\ \A e \in E : e[1] \notin fresh
          /\ tasks = WithEdges([t \in TIDS |->
                         [NewTask(t, TRUE) EXCEPT !.can_be_deleted = t \in fresh]], E, FALSE)

LifeMayCall == last.calls < MaxLifeCalls

LifeSetTitle ==
    /\ LifeMayCall
    /\ \E t \in DOMAIN tasks :
          /\ Returns(set_title(Entry, t, TitleA))
          /\ last' = LifeCalled("set_title", t, TitleA)
    /\ UNCHANGED <<today, ctxs>>

LifeSetText ==
    /\ LifeMayCall
    /\ \E t \in DOMAIN tasks, texte \in {<<"h", "i">>, Amp} :
          /\ Returns(set_text(Entry, t, texte))
          /\ last' = LifeCalled("set_text", t, texte)
    /\ UNCHANGED <<today, ctxs>>

LifeAddTag ==
    /\ LifeMayCall
    /\ \E t \in DOMAIN tasks :
          /\ Returns(add_tag(Entry, t, TagA))
          /\ last' = LifeCalled("add_tag", t, TagA)
    /\ UNCHANGED <<today, ctxs>>

LifeAddChild ==
    /\ LifeMayCall
    /\ \E t \in DOMAIN tasks, c \in DOMAIN tasks :
          /\ c # t
          /\ t \notin Descendants(tasks, c)
          /\ Returns(add_child(Entry, t, c))
          /\ last' = LifeCalled("add_child", t, c)
    /\ UNCHANGED <<today, ctxs>>

LifeNewSubtask ==
    /\ LifeMayCall
    /\ IDS \ DOMAIN tasks # {}
    /\ \E t \in DOMAIN tasks :
          \E r \in {new_subtask(Entry, t)} :
             /\ Returns(r.w)
             /\ last' = LifeCalled("new_subtask", t, r.tid)
    /\ UNCHANGED <<today, ctxs>>

LifeRemoveChild ==
    /\ LifeMayCall
    /\ \E t \in DOMAIN tasks :
          \E c \in Range(tasks[t].children) :
             /\ Returns(remove_child(Entry, t, c))
             /\ last' = LifeCalled("remove_child", t, c)
    /\ UNCHANGED <<today, ctxs>>

NextLife ==
    \/ LifeSetTitle
    \/ LifeSetText
    \/ LifeAddTag
    \/ LifeAddChild
    \/ LifeNewSubtask
    \/ LifeRemoveChild

SpecLife == InitLife /\ [][NextLife]_vars

\* No task that could not be deleted can be deleted after the step.
StaysPermanent ==
    \A t \in DOMAIN tasks \cap DOMAIN tasks' :
        ~tasks[t].can_be_deleted => ~tasks'[t].can_be_deleted

\* C14: a freshly created task can be deleted; after set_title, set_text,
\* add_child or add_tag the task cannot; and a task that cannot be deleted
\* never can again.
C14_PermanentOnceEdited ==
    [][/\ last'.op = "new_subtask" => tasks'[last'.arg].can_be_deleted
       /\ last'.op \in {"set_title", "set_text", "add_child", "add_tag"}
             => ~tasks'[last'.tid].can_be_deleted
       /\ StaysPermanent]_vars

\* C15: remove_child deletes the child only if, detached from this parent,
\* the child has no parent left and can be deleted.
C15_DeletesOrphansOnly ==
    [][(last'.op = "remove_child" /\ last'.arg \notin DOMAIN tasks')
       => /\ tasks[last'.arg].can_be_deleted
          /\ Range(tasks[last'.arg].parents) \subseteq {last'.tid}]_vars

\* --------------------------------------------------- specification: excerpt
\* The largest line count and character count a caller asks for.
MaxExcerptLines == 3
MaxExcerptChar == 10

\* The characters str.strip() removes.
Whitespace == {" ", "\t", NL, "\r", "\f"}

\* s[:n] for n >= 0
Take(s, n) == SubSeq(s, 1, IF n < Len(s) THEN n ELSE Len(s))

\* The end of the longest match of \{\!.+\!\} that starts at i (0 when there
\* is none): "." matches every character but the newline, and ".+" is greedy.
SubtaskMarkerEnd(text, i) ==
    LET ends == {j \in (i + 3)..(Len(text) - 1) :
                    /\ MatchAt(text, <<"!", "}">>, j)
                    /\ \A k \in (i + 2)..(j - 1) : text[k] # NL}
    IN IF MatchAt(text, <<"{", "!">>, i) /\ ends # {}
       THEN 1 + CHOOSE j \in ends : \A k \in ends : k <= j
       ELSE 0

RECURSIVE SubtaskMarkersFrom(_, _)
SubtaskMarkersFrom(text, i) ==
    IF i > Len(text) THEN <<>>
    ELSE IF SubtaskMarkerEnd(text, i) > 0
         THEN SubtaskMarkersFrom(text, SubtaskMarkerEnd(text, i) + 1)
         ELSE <<text[i]>> \o SubtaskMarkersFrom(text, i + 1)

\* re.sub(r'\{\!.+\!\}', '', txt)
re_sub_subtasks(txt) == SubtaskMarkersFrom(txt, 1)

RECURSIVE SplitFrom(_, _, _)
SplitFrom(text, i, line) ==
    IF i > Len(text) THEN (IF line = <<>> THEN <<>> ELSE <<line>>)
    ELSE IF text[i] = "\r" /\ i < Len(text) /\ text[i + 1] = NL
         THEN <<line>> \o SplitFrom(text, i + 2, <<>>)
    ELSE IF text[i] \in {NL, "\r", "\f"}
         THEN <<line>> \o SplitFrom(text, i + 1, <<>>)
    ELSE SplitFrom(text, i + 1, Append(line, text[i]))

\* str.splitlines
splitlines(text) == SplitFrom(text, 1, <<>>)

RECURSIVE join(_, _)
\* sep.join(parts)
join(sep, parts) ==
    IF parts = <<>> THEN <<>>
    ELSE IF Len(parts) = 1 THEN parts[1]
    ELSE parts[1] \o sep \o join(sep, Tail(parts))

RECURSIVE excerpt_strip_tags(_, _)
\* Task.get_excerpt, lines 624-628: the markers of the task's tags go.
excerpt_strip_tags(txt, names) ==
    IF names = <<>> THEN txt
    ELSE excerpt_strip_tags(
             replace(replace(replace(txt, <<"@">> \o Head(names) \o <<",", " ">>, <<>>),
                             <<"@">> \o Head(names) \o <<",">>, <<>>),
                     <<"@">> \o Head(names), <<>>),
             Tail(names))

\* Task.get_excerpt, lines 620-628
excerpt_stripped(txt, names, strip_tags) ==
    IF strip_tags THEN excerpt_strip_tags(txt, names) ELSE txt

\* Task.get_excerpt, lines 630-634: the lines of the text that are not empty.
excerpt_lines(txt, strip_subtasks) ==
    SelectSeq(splitlines(IF strip_subtasks THEN re_sub_subtasks(txt) ELSE txt),
              LAMBDA line : line # <<>>)

\* Task.get_excerpt, lines 638-641
excerpt_chars(txt, char) == IF char > 0 THEN Take(txt, char) ELSE txt

\* Task.get_excerpt
get_excerpt(w, t, lines, char, strip_tags, strip_subtasks) ==
    IF w.tasks[t].content # <<>>
    THEN excerpt_chars(
             join(<<NL>>,
                  Take(excerpt_lines(
                           excerpt_stripped(strip(sax_escape(w.tasks[t].content), Whitespace),
                                            get_tags_name(w, t), strip_tags),
                           strip_subtasks),
                       lines)),
             char)
    ELSE <<>>

\* A content of five lines, none blank.
FiveLines == <<"a", NL, "b", NL, "c", NL, "d", NL, "e">>

\* The contents callers store: five plain lines; blank lines and a carriage
\* return; white space around the text; characters that are escaped; markers
\* of subtasks; markers of the tag "a".
ExcerptTexts ==
    {FiveLines,
     <<"a", NL, NL, "b", "\r", NL, "c">>,
     <<" ", "a", NL, "b", " ", NL>>,
     <<"a", "&", "b", NL, "<", "c", ">">>,
     <<"a", "{", "!", "1", "!", "}", "b", "!", "}", NL, "{", "!", "2", "!", "}", NL, "c">>,
     <<"@", "a", ",", " ", "x", NL, "@", "a", NL, "y">>}

ExcerptCalled(op, tid, arg, result) == [op |-> op, tid |-> tid, arg |-> arg, result |-> result]

\* One loaded task with no content yet, tagged "a" or not.
InitExcerpt ==
    /\ today = 1
    /\ registry = {}
    /\ notified = NoNotified
    /\ events = <<>>
    /\ last = ExcerptCalled("init", 0, RawNone, <<>>)
    /\ ctxs = <<>>
    /\ tasks = [t \in TIDS |-> NewTask(t, TRUE)]
    /\ \E names \in {<<>>, <<TagA>>} : lists = [t \in IDS |-> IF t = 1 THEN names ELSE <<>>]

ExcerptSetText ==
    /\ last.op = "init"
    /\ \E texte \in ExcerptTexts \cup {<<>>} :
          /\ Returns(set_text(Entry, 1, texte))
          /\ last' = ExcerptCalled("set_text", 1, texte, <<>>)
    /\ UNCHANGED <<today, ctxs>>

ExcerptGet ==
    /\ last.op = "set_text"
    /\ \E lines \in 0..MaxExcerptLines, char \in 0..MaxExcerptChar,
          strip_tags \in BOOLEAN, strip_subtasks \in BOOLEAN :
          last' = ExcerptCalled("get_excerpt", 1, <<lines, char, strip_tags, strip_subtasks>>,
                                get_excerpt(Entry, 1, lines, char, strip_tags, strip_subtasks))
    /\ UNCHANGED <<tasks, lists, registry, notified, events, today, ctxs>>

NextExcerpt == ExcerptSetText \/ ExcerptGet

SpecExcerpt == InitExcerpt /\ [][NextExcerpt]_vars

\* The text get_excerpt cuts: escaped, stripped, without the markers the call
\* asks to leave out, blank lines dropped.
ExcerptSource(arg) ==
    excerpt_lines(excerpt_stripped(strip(sax_escape(tasks[1].content), Whitespace),
                                   lists[tasks[1].tags], arg[3]),
                  arg[4])

\* A limit of 0 is no limit.
Bounded(s, n) == IF n > 0 THEN Take(s, n) ELSE s

\* C16: get_excerpt(lines, char) returns the non-blank lines of the content,
\* the first `lines` of them when lines > 0 and the first `char` characters of
\* that when char > 0, 0 meaning no limit; of five non-blank lines, lines=2
\* gives the first two, char=10 at most ten characters, and lines=0 with
\* char=0 all five lines.
C16_ExcerptBounds ==
    (last.op = "get_excerpt" /\ tasks[1].content # <<>>)
    => /\ last.result = Bounded(join(<<NL>>, Bounded(ExcerptSource(last.arg), last.arg[1])),
                                last.arg[2])
       /\ (tasks[1].content = FiveLines /\ last.arg[1] = 2 /\ last.arg[2] = 0)
             => last.result = <<"a", NL, "b">>
       /\ (tasks[1].content = FiveLines /\ last.arg[2] = 10) => Len(last.result) <= 10
       /\ (tasks[1].content = FiveLines /\ last.arg[1] = 0 /\ last.arg[2] = 0)
             => last.result = FiveLines

\* ------------------------------------------ specification: recurrence clones
\* set_status on a task that is not loaded.
SetStatusUnloaded ==
    /\ last.op = "set_due_date" \/ (last.op = "set_status" /\ last.first)
    /\ \E t \in DOMAIN tasks, status \in {STA_DONE, STA_DISMISSED} :
          /\ ~tasks[t].loaded
          /\ \E w \in {set_status(Entry, t, status, RawNone, FALSE, FALSE)} :
                /\ Returns(w)
                /\ last' = [StatusCalled(t, status, RawNone, w)
                               EXCEPT !.first = (last.op = "set_due_date")]
    /\ UNCHANGED <<today, ctxs>>

NextSpawn == TagOne \/ MakeRecurring \/ GiveDueDate \/ SetStatusRecurring \/ SetStatusUnloaded

\* The calls of the recurrence specification, on tasks loaded or not.
SpecSpawn == InitRecur /\ [][NextSpawn]_vars

FanSetParent ==
    /\ LifeMayCall
    /\ \E t \in DOMAIN tasks, p \in DOMAIN tasks :
          /\ p # t
          /\ p \notin Descendants(tasks, t)
          /\ Returns(set_parent(Entry, t, p))
          /\ last' = LifeCalled("set_parent", t, p)
    /\ UNCHANGED <<today, ctxs>>

NextFan == LifeAddTag \/ LifeSetText \/ FanSetParent

\* The tasks of the lifecycle specification; callers tag them, give them
\* content and move them under other tasks.
SpecFan == InitLife /\ [][NextFan]_vars

HasTag(ls, ts, t, name) == name \in Range(ls[ts[t].tags])

RECURSIVE LoadedBelow(_, _)
\* The loaded children of t, and theirs.
LoadedBelow(ts, t) ==
    LET cs == {c \in Range(ts[t].children) : ts[c].loaded}
    IN cs \cup UNION {LoadedBelow(ts, c) : c \in cs}

RECURSIVE DeletableBelow(_, _, _, _)
\* The children of t that can be deleted, and those of each such child that
\* is loaded and has no tag `name` yet.
DeletableBelow(ts, ls, t, name) ==
    LET cs == {c \in Range(ts[t].children) : ts[c].can_be_deleted}
    IN cs \cup UNION {DeletableBelow(ts, ls, c, name) :
                         c \in {x \in cs : ts[x].loaded /\ ~HasTag(ls, ts, x, name)}}

\* add_tag of a tag the task has changes nothing and notifies nobody.
AddTagAgainNoOp ==
    (last'.op = "add_tag" /\ HasTag(lists, tasks, last'.tid, last'.arg))
    => UNCHANGED <<tasks, lists, registry>> /\ notified' = NoNotified

\* C19: add_tag(name) on a loaded task without the tag adds name to the tags
\* of every loaded child, and theirs, whether the child can be deleted or not;
\* add_tag of a tag the task has changes nothing.
C19_TagReachesChildren ==
    [][/\ (last'.op = "add_tag" /\ ~HasTag(lists, tasks, last'.tid, last'.arg)
              /\ tasks[last'.tid].loaded)
          => \A c \in LoadedBelow(tasks, last'.tid) : HasTag(lists', tasks', c, last'.arg)
       /\ AddTagAgainNoOp]_vars

\* C19, for the children that can be deleted: add_tag(name) on a loaded task
\* without the tag adds name to the tags of every child that can be deleted,
\* and so on below each child that had no such tag; add_tag of a tag the task
\* has changes nothing.
C19_TagReachesDeletable ==
    [][/\ (last'.op = "add_tag" /\ ~HasTag(lists, tasks, last'.tid, last'.arg)
              /\ tasks[last'.tid].loaded)
          => \A c \in DeletableBelow(tasks, lists, last'.tid, last'.arg) :
                HasTag(lists', tasks', c, last'.arg)
       /\ AddTagAgainNoOp]_vars

\* A fresh task was put under a fresh child of a task, and the task was then
\* tagged: the child and the child's child have the tag.
C19_Witness ==
    /\ last.op = "add_tag"
    /\ last.calls = 2
    /\ \E c \in Range(tasks[last.tid].children) :
          /\ tasks[c].can_be_deleted
          /\ HasTag(lists, tasks, c, last.arg)
          /\ \E g \in Range(tasks[c].children) :
                /\ g \notin Range(tasks[last.tid].children)
                /\ tasks[g].can_be_deleted
                /\ HasTag(lists, tasks, g, last.arg)

\* ------------------------------------------------- specification: attaching
\* The graphs and due dates of the due-date specification; a caller moves one
\* task under another task that is not below it.
CallSetParent ==
    /\ last.op = "init"
    /\ \E t \in DOMAIN tasks, p \in DOMAIN tasks :
          /\ p # t
          /\ p \notin Descendants(tasks, t)
          /\ Returns(set_parent(Entry, t, p))
          /\ last' = Called("set_parent", t, p)
    /\ UNCHANGED <<today, ctxs>>

NextAttach == CallSetParent \/ CallSetDueDate

SpecAttach == InitDue /\ [][NextAttach]_vars

\* The task t took the due-date constraint c of its new parent where it was
\* due later, and nothing in t's subtree is due later than c.
AttachedWithin(t, c) ==
    /\ (~is_fuzzy(tasks[t].due_date) /\ DateLT(c, tasks[t].due_date))
          => tasks'[t].due_date = c
    /\ \A d \in {t} \cup Descendants(tasks', t) :
          ~is_fuzzy(tasks'[d].due_date) => DateLE(tasks'[d].due_date, c)

\* C20: set_parent(p) on a graph that respected the due-date constraint leaves
\* a graph that respects it: the task takes p's non-fuzzy due-date constraint
\* when it was due later, and no non-fuzzy due date in the task's subtree,
\* below a task with a fuzzy due date included, is later than that constraint.
C20_AttachKeepsConstraint ==
    [][(last'.op = "set_parent" /\ last'.ok_before)
       => /\ DueConstraint(tasks')
          /\ ~is_fuzzy(get_due_date_constraint(World, last'.arg))
                => AttachedWithin(last'.tid, get_due_date_constraint(World, last'.arg))]_vars

\* ------------------------------------------ specification: the constraint
\* The graphs and due dates of the due-date specification; a caller may move
\* one task under another and then asks one task for its due-date constraint.
CallGetConstraint ==
    /\ last.op \in {"init", "set_parent"}
    /\ \E t \in DOMAIN tasks :
          last' = [op |-> "get_due_date_constraint", tid |-> t, arg |-> RawNone,
                   result |-> get_due_date_constraint(World, t)]
    /\ UNCHANGED <<tasks, lists, registry, notified, events, today, ctxs>>

NextConstraint == CallSetParent \/ CallGetConstraint

SpecConstraint == InitDue /\ [][NextConstraint]_vars

\* The earliest of the due dates of the tasks in S.
EarliestDue(ts, S) ==
    Day(CHOOSE n \in {ts[a].due_date.day : a \in S} :
            \A a \in S : n <= ts[a].due_date.day)

\* C21: get_due_date_constraint() returns the task's own due date when that
\* is not fuzzy; otherwise the earliest due date of the nearest ancestors
\* with a non-fuzzy due date over all parent chains; and no_date when there
\* is no such ancestor, also when the task's own due date is a fuzzy value
\* such as someday.
C21_ConstraintValue ==
    last.op = "get_due_date_constraint"
    => IF ~is_fuzzy(tasks[last.tid].due_date)
       THEN last.result = tasks[last.tid].due_date
       ELSE IF NearestDefinedAncestors(tasks, last.tid) # {}
            THEN last.result = EarliestDue(tasks, NearestDefinedAncestors(tasks, last.tid))
            ELSE last.result = NoDate

\* --------------------------------------------- specification: next occurrence
\* The latest day a call is made on.
MaxToday == 6

\* Loaded recurring tasks with any term and a due date or none, on any day;
\* a caller asks one task for its next occurrence.
InitNext ==
    /\ today \in 1..MaxToday
    /\ lists = [t \in IDS |-> <<>>]
    /\ registry = {}
    /\ notified = NoNotified
    /\ events = <<>>
    /\ last = [op |-> "init", tid |-> 0, arg |-> RawNone, result |-> RawNone]
    /\ ctxs = <<>>
    /\ \E due \in [TIDS -> {NoDate} \cup {Day(n) : n \in 1..MaxDate}], term \in Terms :
          tasks = [t \in TIDS |->
                      [NewTask(t, TRUE) EXCEPT !.due_date = due[t], !.recurring = TRUE,
                           !.recurring_term = term, !.can_be_deleted = FALSE]]

CallGetNextOccurrence ==
    /\ last.op = "init"
    /\ \E t \in DOMAIN tasks :
          last' = [op |-> "get_next_occurrence", tid |-> t, arg |-> RawNone,
                   result |-> get_next_occurrence(World, t)]
    /\ UNCHANGED <<tasks, lists, registry, notified, events, today, ctxs>>

NextNext == CallGetNextOccurrence

SpecNext == InitNext /\ [][NextNext]_vars

\* The date k terms after the due date of t.
Advanced(t, k) == tasks[t].due_date.day + k * TermOffset(tasks[t].recurring_term)

CallDuplicateRecursively ==
    /\ last.op = "set_due_date"
    /\ \E t \in DOMAIN tasks :
          /\ tasks[t].loaded
          /\ CloneCount(tasks, t) <= Cardinality(IDS \ DOMAIN tasks)
          /\ \E r \in {duplicate_recursively(Entry, t)} :
                /\ Returns(r.w)
                /\ last' = [op |-> "duplicate_recursively", tid |-> t, arg |-> RawNone,
                            raised |-> r.w.raised, root |-> r.tid,
                            created |-> DOMAIN r.w.tasks \ DOMAIN tasks]
    /\ UNCHANGED <<today, ctxs>>

NextClone == TagOne \/ MakeRecurring \/ GiveDueDate \/ CallDuplicateRecursively

SpecClone == InitRecur /\ [][NextClone]_vars

\* C23: duplicate_recursively() notifies exactly once, the root clone, and
\* no other task.
C23_OneSync ==
    (last.op = "duplicate_recursively" /\ ~last.raised)
    => notified = [n \in IDS |-> IF n = last.root THEN 1 ELSE 0]

\* The loaded children of task o.
LoadedChildren(ts, o) == SelectSeq(ts[o].children, LAMBDA c : ts[c].loaded)

RECURSIVE Mirrors(_, _, _, _)
\* The subtree of c in cs is that of o in ts through loaded children: child
\* for child, each child of c having c as its only parent.
Mirrors(ts, cs, o, c) ==
    /\ Len(cs[c].children) = Len(LoadedChildren(ts, o))
    /\ \A i \in 1..Len(cs[c].children) :
          /\ cs[c].children[i] \notin DOMAIN ts
          /\ cs[cs[c].children[i]].parents = <<c>>
          /\ Mirrors(ts, cs, LoadedChildren(ts, o)[i], cs[c].children[i])

\* C24: duplicate_recursively() creates one task for the task and one for
\* every descendant reachable through loaded children; the clones have the
\* shape of the originals; no original gains or loses a child or a parent.
C24_CloneShape ==
    [][(last'.op = "duplicate_recursively" /\ ~last'.raised)
       => /\ last'.created = DOMAIN tasks' \ DOMAIN tasks
          /\ Cardinality(last'.created) = Cardinality({last'.tid} \cup LoadedBelow(tasks, last'.tid))
          /\ last'.root \in last'.created
          /\ tasks'[last'.root].parents = <<>>
          /\ Mirrors(tasks, tasks', last'.tid, last'.root)
          /\ \A o \in DOMAIN tasks :
                /\ tasks'[o].children = tasks[o].children
                /\ tasks'[o].parents = tasks[o].parents]_vars

\* ----------------------------------------------------- specification: events
\* Calls a behaviour makes before the scheduled events are all delivered.
MaxEventCalls == 2

\* Tasks in any acyclic graph, all Active, at most one not loaded and at most
\* one childless task recurring every day and due on day 1; no event is
\* scheduled.  Callers set statuses, with or without init, with a status or
\* None; the event loop delivers the scheduled events when idle.
InitEvents ==
    /\ today = MaxDate
    /\ events = <<>>
    /\ last = [op |-> "init", tid |-> 0, arg |-> None, init |-> FALSE, calls |-> 0,
               old |-> None, queued |-> 0, created |-> {}, event |-> <<>>]
    /\ ctxs = <<>>
    /\ notified = NoNotified
    /\ lists = [t \in IDS |-> <<>>]
    /\ registry = {}
    /\ \E E \in EdgeSets, unl \in SUBSET TIDS, rec \in SUBSET TIDS :
          /\ Cardinality(unl) <= 1
          /\ Cardinality(rec) <= 1
          /\ \A e \in E : e[1] \notin rec
          /\ tasks = WithEdges([t \in TIDS |->
                         [NewTask(t, FALSE) EXCEPT !.loaded = t \notin unl,
                              !.recurring = t \in rec,
                              !.recurring_term = IF t \in rec THEN "day" ELSE None,
                              !.due_date = IF t \in rec THEN Day(1) ELSE NoDate]], E, FALSE)

\* GLib.idle_add: the events scheduled by earlier calls stay in the queue
\* while a call runs.
EntryQueued == [Entry EXCEPT !.events = events]

EventsSetStatus ==
    /\ last.calls < MaxEventCalls
    /\ \E t \in DOMAIN tasks, status \in {None, STA_ACTIVE, STA_DONE, STA_DISMISSED},
          init \in BOOLEAN :
          /\ Spawns(World, t, status)
                => CloneCount(tasks, t) <= Cardinality(IDS \ DOMAIN tasks)
          /\ \E w \in {set_status(EntryQueued, t, status, RawNone, FALSE, init)} :
                /\ ~w.raised
                /\ Returns(w)
                /\ last' = [op |-> "set_status", tid |-> t, arg |-> status, init |-> init,
                            calls |-> last.calls + 1, old |-> tasks[t].status,
                            queued |-> Len(events),
                            created |-> DOMAIN w.tasks \ DOMAIN tasks, event |-> <<>>]
    /\ UNCHANGED <<today, ctxs>>

\* The event loop, idle: the oldest scheduled event is emitted.
EventsDeliver ==
    /\ events # <<>>
    /\ events' = Tail(events)
    /\ last' = [last EXCEPT !.op = "deliver", !.event = Head(events)]
    /\ UNCHANGED <<tasks, lists, registry, notified, today, ctxs>>

NextEvents == EventsSetStatus \/ EventsDeliver

SpecEvents == InitEvents /\ [][NextEvents]_vars

\* C25: set_status with no status leaves every status and closing date as it
\* was, creates no task, schedules no event, and syncs the task: a loaded
\* task is notified once.
C25_NoStatusNoOp ==
    [][(last'.op = "set_status" /\ last'.arg = None)
       => /\ DOMAIN tasks' = DOMAIN tasks
          /\ \A x \in DOMAIN tasks :
                /\ tasks'[x].status = tasks[x].status
                /\ tasks'[x].closed_date = tasks[x].closed_date
          /\ events' = events
          /\ notified' = [n \in IDS |->
                             IF n = last'.tid /\ tasks[n].loaded THEN 1 ELSE 0]]_vars

\* A recurring task that was closed got a second call, with no status: it is
\* still closed, and was notified.
C25_Witness ==
    /\ last.op = "set_status"
    /\ last.arg = None
    /\ last.calls = 2
    /\ tasks[last.tid].recurring
    /\ tasks[last.tid].status = STA_DONE
    /\ notified[last.tid] = 1

\* The events a set_status step schedules: those behind the ones queued before.
Scheduled == SubSeq(events', Len(events) + 1, Len(events'))

\* C29: a set_status call with a status and init=false schedules exactly one
\* event for its task, (task, status before the call, new status), behind the
\* events scheduled earlier; with init=true it schedules none for the task;
\* events are delivered after the call, oldest first.
C29_OneEventPerCall ==
    [][/\ last'.op = "set_status"
          => /\ Len(events') >= Len(events)
             /\ SubSeq(events', 1, Len(events)) = events
             /\ (last'.arg # None /\ ~last'.init)
                   => /\ Cardinality({i \in 1..Len(Scheduled) :
                                         Scheduled[i][1] = last'.tid}) = 1
                      /\ Scheduled[Len(Scheduled)] = <<last'.tid, last'.old, last'.arg>>
             /\ (last'.arg = None \/ last'.init)
                   => \A i \in 1..Len(Scheduled) : Scheduled[i][1] # last'.tid
       /\ last'.op = "deliver"
          => /\ last'.event = events[1]
             /\ events' = Tail(events)
             /\ UNCHANGED tasks]_vars

\* A second call was made while the event of the first was still queued: the
\* queue holds the first call's event, then the second call's.
C29_Witness ==
    /\ last.op = "set_status"
    /\ last.calls = 2
    /\ ~last.init
    /\ last.queued > 0
    /\ Len(events) > last.queued
    /\ events[Len(events)] = <<last.tid, last.old, last.arg>>
    /\ events[1][1] # last.tid

\* ------------------------------------------ specification: recurrence calls
\* The record of a call on task t: was tells whether t was recurring before
\* it, before names the call made before it.
RecCalled(op, t, arg, w) ==
    [op |-> op, tid |-> t, arg |-> arg, raised |-> w.raised, first |-> last.op = "init",
     was |-> tasks[t].recurring, before |-> last.op]

RecToggle ==
    /\ MayCall
    /\ \E t \in DOMAIN tasks :
          \E w \in {toggle_recurring(Entry, t)} :
             /\ Returns(w)
             /\ last' = RecCalled("toggle_recurring", t, RawNone, w)
    /\ UNCHANGED <<today, ctxs>>

\* inherit_recursion may also follow two set_recurring calls.
RecInherit ==
    /\ MayCall \/ last.op = "set_recurring"
    /\ \E t \in DOMAIN tasks :
          \E w \in {inherit_recursion(Entry, t)} :
             /\ Returns(w)
             /\ last' = RecCalled("inherit_recursion", t, RawNone, w)
    /\ UNCHANGED <<today, ctxs>>

RecAddChild ==
    /\ MayCall
    /\ \E t \in DOMAIN tasks, c \in DOMAIN tasks :
          /\ c # t
          /\ t \notin Descendants(tasks, c)
          /\ \E w \in {add_child(Entry, t, c)} :
                /\ Returns(w)
                /\ last' = RecCalled("add_child", t, c, w)
    /\ UNCHANGED <<today, ctxs>>

RecSetParent ==
    /\ MayCall
    /\ \E t \in DOMAIN tasks, p \in DOMAIN tasks :
          /\ p # t
          /\ p \notin Descendants(tasks, t)
          /\ \E w \in {set_parent(Entry, t, p)} :
                /\ Returns(w)
                /\ last' = RecCalled("set_parent", t, p, w)
    /\ UNCHANGED <<today, ctxs>>

RecDuplicate ==
    /\ MayCall
    /\ IDS \ DOMAIN tasks # {}
    /\ \E t \in DOMAIN tasks :
          \E r \in {duplicate(Entry, t)} :
             /\ Returns(r.w)
             /\ last' = RecCalled("duplicate", t, r.tid, r.w)
    /\ UNCHANGED <<today, ctxs>>

NextRecurrence ==
    \/ TermSetRecurring
    \/ RecToggle
    \/ RecInherit
    \/ RecAddChild
    \/ RecSetParent
    \/ RecDuplicate

\* The tasks of the recurrence-terms specification; a caller makes one call
\* of set_recurring, toggle_recurring, inherit_recursion, add_child,
\* set_parent or duplicate, and a caller makes one more.
SpecRecurrence == InitTerm /\ [][NextRecurrence]_vars

\* The date is_valid_term starts from, lines 302-305.
StartFrom(ts, t) == IF ts[t].start_date = NoDate THEN Day(today) ELSE ts[t].start_date

\* C26: toggle_recurring() negates the recurring flag, so that a second
\* toggle restores the flag the task had before the first; when the task has
\* no term, the term becomes "day" and the due date the date one term after
\* the start date, or after today when there is none.
C26_ToggleNegates ==
    [][last'.op = "toggle_recurring"
       => /\ tasks'[last'.tid].recurring = ~tasks[last'.tid].recurring
          /\ (last.op = "toggle_recurring" /\ last.tid = last'.tid)
                => tasks'[last'.tid].recurring = last.was
          /\ tasks[last'.tid].recurring_term = None
                => /\ tasks'[last'.tid].recurring_term = "day"
                   /\ tasks'[last'.tid].due_date
                         = parse_from_date(StartFrom(tasks, last'.tid), "day", TRUE).date]_vars

\* A task with no term was toggled twice: it is not recurring, as before the
\* first toggle, recurs every day and has the due date the first toggle set.
C26_Witness ==
    /\ last.op = "toggle_recurring"
    /\ last.before = "toggle_recurring"
    /\ last.was
    /\ ~tasks[last.tid].recurring
    /\ tasks[last.tid].recurring_term = "day"
    /\ tasks[last.tid].due_date = Day(today + 1)

\* The loaded recurring parents of t, in the order of its parents.
RecurringParents(ts, t) ==
    SelectSeq(ts[t].parents, LAMBDA p : ts[p].recurring /\ ts[p].loaded)

C30_RecurringHasTerm ==
    \A t \in DOMAIN tasks : tasks[t].recurring => tasks[t].recurring_term \in ValidTerms

\* A copy made by duplicate() of a recurring task is recurring with the
\* original's term.
C30_Witness ==
    /\ last.op = "duplicate"
    /\ ~last.raised
    /\ tasks[last.arg].recurring
    /\ tasks[last.arg].recurring_term = "other-day"
    /\ tasks[last.tid].recurring_term = "other-day"

\* ------------------------------------------------------------ renaming a tag
\* C28: after rename_tag(old, new) on a task that has the tag old and its
\* marker in the content, the tags hold new and not old, and the content
\* holds the marker of new and no marker of old, also when old is a prefix
\* of new.
C28_RenameMovesMarker ==
    [][(/\ last'.op = "rename_tag"
        /\ last'.had
        /\ MarkerIn(tasks[last'.tid].content, last'.arg[1]))
       => /\ last'.arg[2] \in Range(lists'[tasks'[last'.tid].tags])
          /\ last'.arg[1] \notin Range(lists'[tasks'[last'.tid].tags])
          /\ MarkerIn(tasks'[last'.tid].content, last'.arg[2])
          /\ ~MarkerIn(tasks'[last'.tid].content, last'.arg[1])]_vars

\* ------------------------------------ specification: the tags of a duplicate
AliasDuplicate ==
    /\ last.op = "set_due_date"
    /\ tasks[last.tid].loaded
    /\ \E r \in {duplicate(Entry, last.tid)} :
          /\ Returns(r.w)
          /\ last' = [op |-> "duplicate", tid |-> last.tid, arg |-> r.tid,
                      raised |-> r.w.raised]
    /\ UNCHANGED <<today, ctxs>>

\* A tag call on the copy or on the original; other is the one not called.
AliasAddTag ==
    /\ last.op = "duplicate"
    /\ ~last.raised
    /\ \E t \in {last.tid, last.arg}, name \in {TagA, Fo} :
          /\ Returns(add_tag(Entry, t, name))
          /\ last' = [op |-> "tag_change", call |-> "add_tag", tid |-> t, arg |-> name,
                      other |-> IF t = last.tid THEN last.arg ELSE last.tid]
    /\ UNCHANGED <<today, ctxs>>

AliasRemoveTag ==
    /\ last.op = "duplicate"
    /\ ~last.raised
    /\ \E t \in {last.tid, last.arg}, name \in {TagA, Fo} :
          /\ Returns(remove_tag(Entry, t, name))
          /\ last' = [op |-> "tag_change", call |-> "remove_tag", tid |-> t, arg |-> name,
                      other |-> IF t = last.tid THEN last.arg ELSE last.tid]
    /\ UNCHANGED <<today, ctxs>>

NextAlias ==
    \/ TagOne
    \/ MakeRecurring
    \/ GiveDueDate
    \/ AliasDuplicate
    \/ AliasAddTag
    \/ AliasRemoveTag

\* The tasks of the recurrence specification: a caller may tag one task, makes
\* it recurring and gives it a due date; a caller duplicates it, and a caller
\* then adds a tag to, or removes one from, the copy or the original.
SpecAlias == InitRecur /\ [][NextAlias]_vars

\* C31: after duplicate(), an add_tag or remove_tag on the copy leaves the
\* tags of the original as they were, and one on the original leaves the tags
\* of the copy as they were.
C31_TagsIndependent ==
    [][(last.op = "duplicate" /\ last'.op = "tag_change")
       => lists'[tasks'[last'.other].tags] = lists[tasks[last'.other].tags]]_vars

\* ------------------------------------ specification: the due-date cascade
CascadeSetDueDate ==
    /\ last.op = "init"
    /\ \E t \in DOMAIN tasks, d \in DateInputs :
          \E w \in {set_due_date(Entry, t, d)} :
             /\ Returns(w)
             /\ last' = [op |-> "set_due_date", tid |-> t, arg |-> d,
                         assigned |-> w.assigned]
    /\ UNCHANGED <<today, ctxs>>

NextCascade == CascadeSetDueDate

\* The tasks of the due-date specification, in any acyclic graph and with any
\* due dates; a caller sets one due date.
SpecCascade == InitDue /\ [][NextCascade]_vars

\* C32: set_due_date(d) returns on every acyclic graph, also where a task
\* has several parents, and the call and its cascade assign the due date of
\* each task at most once, and always the date d.
C32_AssignsOnce ==
    last.op = "set_due_date"
        => /\ \A i, j \in 1..Len(last.assigned) :
                 last.assigned[i][1] = last.assigned[j][1] => i = j
           /\ \A i \in 1..Len(last.assigned) : last.assigned[i][2] = Date(last.arg)
           /\ last.assigned[1][1] = last.tid

\* The cascade reached every task of a graph in which a task has two
\* parents and a task has two children.
C32_Witness ==
    /\ last.op = "set_due_date"
    /\ Len(last.assigned) = MaxTasks
    /\ \E t \in DOMAIN tasks : Len(tasks[t].parents) = 2
    /\ \E t \in DOMAIN tasks : Len(tasks[t].children) = 2

\* --------------------------------------------- closing a closed task again
\* C33: set_status(Done) on a recurring task that is Done or Dismissed
\* already creates no task.
C33_RecloseSpawnsNothing ==
    [][(/\ last'.op = "set_status"
        /\ last'.arg = STA_DONE
        /\ tasks[last'.tid].recurring
        /\ tasks[last'.tid].status \in Closed)
       => DOMAIN tasks' = DOMAIN tasks]_vars

\* ---------------------------------------------------- nested suspended sync
\* C34: leaving a DisabledSyncCtx on a task while an outer DisabledSyncCtx
\* on the same task is still entered notifies nothing and leaves sync() on
\* the task suspended.
C34_InnerExitKeepsSuspended ==
    [][(/\ last'.op = "exit"
        /\ \E i \in 1..Len(ctxs') : ctxs'[i].task = last'.tid)
       => /\ tasks'[last'.tid].sync_disabled
          /\ notified'[last'.tid] = 0]_vars

================================================================================
